---- MODULE Spec2Model ----
(***************************************************************************)
(* Model of the device lifecycle strategy (PhysicalDeviceStrategy) and of  *)
(* the firmware transfer engine (SysupgradeDriver) of libremesh-tests.     *)
(*                                                                         *)
(* Every public operation is one action.  The Python code of an operation  *)
(* is a pure operator over an execution context x                          *)
(*   [status, smart, active, relay, events, raised]                        *)
(* that is threaded through the helpers the operation calls; an exception  *)
(* is the flag x.raised, which ends the operation where the code has no    *)
(* handler.  What the device and the channels answer is an input of the    *)
(* action, drawn with \E.  Capability activation (target.activate) is      *)
(* labgrid code and is modelled as total.  Time is in whole seconds.       *)
(***************************************************************************)
EXTENDS Integers, Sequences, FiniteSets

VARIABLES
    status,                 \* PhysicalDeviceStrategy.status (cached state)
    smart_state_detection,  \* PhysicalDeviceStrategy.smart_state_detection
    active,                 \* capabilities currently activated on the target
    relay,                  \* last command the power relay accepted
    cfg,                    \* boot profile and bound optional capabilities
    last,                   \* record of the last strategy operation
    poll,                   \* the shell script the last polling loop ran against
    prevEnsureOff,          \* power-offs of the call before `last` when that
                            \* call was an ensure_off that returned, else -1
    driver,                 \* attributes of the SysupgradeDriver
    drv,                    \* record of the last driver operation
    rcfg,                   \* recovery configuration and capabilities it needs
    fw,                     \* the flash_firmware call: position and counters
    fx                      \* the session flash fixture: options and position

vars ==
    <<status, smart_state_detection, active, relay, cfg, last, poll, prevEnsureOff,
      driver, drv, rcfg, fw, fx>>

----------------------------------------------------------------------------
(* Constants of the source *)

SHELL_CHECK == 2
SHELL_READY == 5
SHELL_RETRY_INTERVAL == 2
MAX_WAIT_CYCLES == 8
ATTEMPTS == 3
EXIT_CODE_OK == 0
TEST_ACTIVE_MATCH == 0
LOGIN_MATCH == 1
PROMPT_MATCH == 2

(* Bounds of the model *)
MaxConnTimeout == 3

Status == {"unknown", "off", "shell"}

ConnTimeouts == 0..MaxConnTimeout

\* Failed polls after which every script lets the loop run out of time.
MaxFails == (MaxConnTimeout + SHELL_RETRY_INTERVAL - 1) \div SHELL_RETRY_INTERVAL

----------------------------------------------------------------------------
(* Execution context *)

NoProbe == "-"

NoWait == [ok |-> FALSE, attempts |-> -1]

\* probe and run are the channel answers the operation has consumed so far.
Ctx(st, sm, ac, rl) ==
    [status |-> st, smart |-> sm, active |-> ac, relay |-> rl,
     events |-> <<>>, raised |-> FALSE, probe |-> NoProbe, run |-> NoWait]

\* A step of straight-line code: skipped once an exception is propagating.
Emit(x, chan, what) ==
    IF x.raised THEN x ELSE [x EXCEPT !.events = Append(@, <<chan, what>>)]

Raise(x) == [x EXCEPT !.raised = TRUE]

\* target.activate(driver); get_driver(name) activates too
activate(x, d) ==
    IF x.raised THEN x
    ELSE [x EXCEPT !.active = @ \cup {d}, !.events = Append(@, <<"activate", d>>)]

RECURSIVE Count(_, _)
Count(evs, e) ==
    IF evs = <<>> THEN 0
    ELSE (IF Head(evs) = e THEN 1 ELSE 0) + Count(Tail(evs), e)

\* position of the first occurrence of e in evs, 0 when absent
RECURSIVE IndexFrom(_, _, _)
IndexFrom(evs, e, i) ==
    IF i > Len(evs) THEN 0
    ELSE IF evs[i] = e THEN i ELSE IndexFrom(evs, e, i + 1)

Index(evs, e) == IndexFrom(evs, e, 1)

Has(evs, e) == Index(evs, e) > 0

PowerOff == <<"power", "off">>
PowerOn == <<"power", "on">>
PowerCommands(evs) == Count(evs, PowerOff) + Count(evs, PowerOn)

----------------------------------------------------------------------------
(* Fast probe: _check_shell_active *)

\* What the serial console gives back to sendline("echo test_active") +
\* expect(["test_active", "login:", "#"]):
\*   echo_output  the shell ran the command and printed the marker
\*   local_echo   only the typed command text came back (tty or bootloader echo)
\*   prompt       a '#' matched and no marker
\*   login        a login prompt matched
\*   timeout      nothing matched within SHELL_CHECK
\*   raise        the serial driver raised
ProbeOutcomes == {"echo_output", "local_echo", "prompt", "login", "timeout", "raise"}

\* result[0] of serial_driver.expect
ExpectIndex(probe) ==
    CASE probe = "echo_output" -> TEST_ACTIVE_MATCH
      [] probe = "local_echo" -> TEST_ACTIVE_MATCH
      [] probe = "login" -> LOGIN_MATCH
      [] probe = "prompt" -> PROMPT_MATCH

\* variant: only the echo tag counts as an answer
check_shell_active_tag_only(x, c, probe) ==
    IF ~x.smart THEN [x |-> x, ret |-> FALSE]
    ELSE IF ~c.has_serial THEN [x |-> x, ret |-> FALSE]
    ELSE LET s == [Emit(activate(x, "serial"), "serial", "echo test_active")
                       EXCEPT !.probe = probe] IN
         IF probe \in {"timeout", "raise"} THEN [x |-> s, ret |-> FALSE]
         ELSE [x |-> s, ret |-> ExpectIndex(probe) = TEST_ACTIVE_MATCH]

\* variant: an exception of the serial driver is not caught
check_shell_active_propagating(x, c, probe) ==
    IF ~x.smart THEN [x |-> x, ret |-> FALSE]
    ELSE IF ~c.has_serial THEN [x |-> Raise(x), ret |-> FALSE]
    ELSE LET s == [Emit(activate(x, "serial"), "serial", "echo test_active")
                       EXCEPT !.probe = probe] IN
         IF probe = "raise" THEN [x |-> Raise(s), ret |-> FALSE]
         ELSE IF probe = "timeout" THEN [x |-> s, ret |-> FALSE]
         ELSE [x |-> s,
               ret |-> ExpectIndex(probe) \in {TEST_ACTIVE_MATCH, PROMPT_MATCH}]

check_shell_active(x, c, probe) ==
    IF ~x.smart THEN [x |-> x, ret |-> FALSE]
    ELSE IF ~c.has_serial THEN [x |-> x, ret |-> FALSE]
    ELSE LET s == [Emit(activate(x, "serial"), "serial", "echo test_active")
                       EXCEPT !.probe = probe] IN
         IF probe \in {"timeout", "raise"} THEN [x |-> s, ret |-> FALSE]
         ELSE [x |-> s,
               ret |-> ExpectIndex(probe) \in {TEST_ACTIVE_MATCH, PROMPT_MATCH}]

----------------------------------------------------------------------------
(* Shell polling: _is_shell_ready and the loop of _wait_for_shell *)

\* A reply of shell.run("echo ready"): it raises, or returns stdout lines
\* and an exit code.
Replies ==
    [raised : {FALSE}, exit : {0, 1}, stdout : {<<>>, <<"ready">>, <<"garbage">>}]
    \cup {[raised |-> TRUE, exit |-> 1, stdout |-> <<>>]}

is_shell_ready(r) ==
    IF r.raised THEN FALSE
    ELSE /\ r.exit = EXIT_CODE_OK
         /\ r.stdout # <<>>
         /\ r.stdout[1] = "ready"

OkReply == [raised |-> FALSE, exit |-> 0, stdout |-> <<"ready">>]

FailReplies == {r \in Replies : ~is_shell_ready(r)}

\* One failed poll: what came back and how long the call took.
FailedPolls == [reply : FailReplies, dur : 0..SHELL_READY]

\* A script is the failed polls that precede the first correct answer.
Scripts == UNION {[1..n -> FailedPolls] : n \in 0..MaxFails}

ReplyAt(script, i) == IF i <= Len(script) THEN script[i].reply ELSE OkReply

DurAt(script, i) == IF i <= Len(script) THEN script[i].dur ELSE 0

\* while time() - start < connection_timeout:
\*     if _is_shell_ready(): return
\*     sleep(SHELL_RETRY_INTERVAL)
\* raise StrategyError
\* variant: the time a failed poll takes is not counted
RECURSIVE wait_loop_untimed(_, _, _, _)
wait_loop_untimed(script, ct, i, elapsed) ==
    IF ~(elapsed < ct) THEN [ok |-> FALSE, attempts |-> i - 1]
    ELSE IF is_shell_ready(ReplyAt(script, i)) THEN [ok |-> TRUE, attempts |-> i]
    ELSE wait_loop_untimed(script, ct, i + 1, elapsed + SHELL_RETRY_INTERVAL)

RECURSIVE wait_loop(_, _, _, _)
wait_loop(script, ct, i, elapsed) ==
    IF ~(elapsed < ct) THEN [ok |-> FALSE, attempts |-> i - 1]
    ELSE IF is_shell_ready(ReplyAt(script, i)) THEN [ok |-> TRUE, attempts |-> i]
    ELSE wait_loop(script, ct, i + 1,
                   elapsed + DurAt(script, i) + SHELL_RETRY_INTERVAL)

RECURSIVE SumDur(_, _)
SumDur(script, n) == IF n = 0 THEN 0 ELSE script[n].dur + SumDur(script, n - 1)

\* One run of the loop against a script: the number N of failed polls before
\* the first correct answer, the time those polls took, and what the loop did.
shell_poll(script, ct) ==
    [nFail |-> Len(script),
     inPolls |-> SumDur(script, Len(script)),
     run |-> wait_loop(script, ct, 1, 0)]

ScriptedRuns == [ct \in ConnTimeouts |-> {shell_poll(s, ct) : s \in Scripts}]

\* What the loop can do under a given connection_timeout, over all scripts.
WaitOutcomes == [ct \in ConnTimeouts |-> {p.run : p \in ScriptedRuns[ct]}]

----------------------------------------------------------------------------
(* Power relay and line isolator *)

\* The step of an operation that raises when it is reached ("none": no step
\* does).  A command that raises is not counted as accepted by the relay.
Faults == {"none", "power.off", "power.on", "isolator.disconnect", "isolator.connect"}

power_command(x, cmd, fault) ==
    IF x.raised THEN x
    ELSE IF fault = cmd THEN Raise(Emit(x, "error", cmd))
    ELSE IF cmd = "power.off" THEN [Emit(x, "power", "off") EXCEPT !.relay = "off"]
    ELSE [Emit(x, "power", "on") EXCEPT !.relay = "on"]

isolator_command(x, cmd, fault) ==
    IF x.raised THEN x
    ELSE IF fault = cmd THEN Raise(Emit(x, "error", cmd))
    ELSE IF cmd = "isolator.disconnect" THEN Emit(x, "isolator", "disconnect")
    ELSE Emit(x, "isolator", "connect")

sleep(x, what) == Emit(x, "sleep", what)

\* variant: the power-off is followed by a settle delay and a console check
power_off_read_back(x, fault) ==
    Emit(sleep(power_command(activate(x, "power"), "power.off", fault), "POWER_OFF_DELAY"),
         "serial", "")

power_off(x, fault) == power_command(activate(x, "power"), "power.off", fault)

\* variant: the line is reconnected as soon as power is on
power_cycle_with_serial_isolation_early_connect(x, fault) ==
    LET a == activate(x, "isolator")
        b == power_command(a, "power.off", fault)
        c == isolator_command(b, "isolator.disconnect", fault)
        d == sleep(c, "POWER_OFF_DELAY")
        e == power_command(d, "power.on", fault)
        f == isolator_command(e, "isolator.connect", fault)
        g == sleep(f, "boot_wait")
    IN sleep(g, "SERIAL_RECONNECT")

power_cycle_with_serial_isolation(x, fault) ==
    LET a == activate(x, "isolator")
        b == power_command(a, "power.off", fault)
        c == isolator_command(b, "isolator.disconnect", fault)
        d == sleep(c, "POWER_OFF_DELAY")
        e == power_command(d, "power.on", fault)
        f == sleep(e, "boot_wait")
        g == isolator_command(f, "isolator.connect", fault)
    IN sleep(g, "SERIAL_RECONNECT")

perform_standard_power_on(x, fault) ==
    sleep(power_command(x, "power.on", fault), "boot_wait")

RECURSIVE Repeat(_, _, _, _)
Repeat(x, chan, what, n) ==
    IF n = 0 THEN x ELSE Repeat(Emit(x, chan, what), chan, what, n - 1)

\* sendline("") ATTEMPTS times; a sendline that raises is swallowed
wake_console(x, c) ==
    IF ~c.has_serial THEN x
    ELSE Repeat(activate(x, "serial"), "serial", "", ATTEMPTS)

\* run is what the polling loop does during this boot: wait_loop against the
\* shell's script
wait_for_shell(x, c, run) ==
    IF x.raised THEN x
    ELSE LET a == wake_console(x, c)
             b == activate(a, "shell")
             p == [Repeat(b, "shell", "echo ready", run.attempts) EXCEPT !.run = run]
         IN CASE run.attempts >= 0 -> IF run.ok THEN p ELSE Raise(p)

\* The steps of the power-on sequence of a profile that can raise.
boot_faults(c) ==
    IF c.requires_serial_disconnect /\ c.has_isolator
    THEN {"power.off", "isolator.disconnect", "power.on", "isolator.connect"}
    ELSE {"power.on"}

\* env = [probe, fault, run]
power_on_and_wait_for_shell(x, c, env) ==
    LET chk == check_shell_active(x, c, env.probe) IN
    IF chk.ret THEN chk.x
    ELSE LET a == activate(chk.x, "power")
             b == IF c.requires_serial_disconnect /\ c.has_isolator
                  THEN power_cycle_with_serial_isolation(a, env.fault)
                  ELSE perform_standard_power_on(a, env.fault)
         IN wait_for_shell(b, c, env.run)

----------------------------------------------------------------------------
(* Operations of the strategy *)

\* variant: the cached status is not updated
transition_keeps_status(x, c, state, env) ==
    IF state = "unknown" THEN Raise(x)
    ELSE IF x.status = state
    THEN (IF state = "shell" THEN activate(x, "shell") ELSE x)
    ELSE IF state = "off" THEN power_off(x, env.fault)
    ELSE activate(power_on_and_wait_for_shell(x, c, env), "shell")

\* variant: the "unknown" target is not rejected
transition_accepts_unknown(x, c, state, env) ==
    IF x.status = state
    THEN (IF state = "shell" THEN activate(x, "shell") ELSE x)
    ELSE LET y == IF state = "shell"
                  THEN activate(power_on_and_wait_for_shell(x, c, env), "shell")
                  ELSE power_off(x, env.fault)
         IN IF y.raised THEN y ELSE [y EXCEPT !.status = state]

\* variant: no short-circuit when the target is the cached status
transition_no_shortcut(x, c, state, env) ==
    IF state = "unknown" THEN Raise(x)
    ELSE LET y == IF state = "off" THEN power_off(x, env.fault)
                  ELSE activate(power_on_and_wait_for_shell(x, c, env), "shell")
         IN IF y.raised THEN y ELSE [y EXCEPT !.status = state]

transition(x, c, state, env) ==
    IF state = "unknown" THEN Raise(x)
    ELSE IF x.status = state
    THEN (IF state = "shell" THEN activate(x, "shell") ELSE x)
    ELSE LET y == IF state = "off" THEN power_off(x, env.fault)
                  ELSE activate(power_on_and_wait_for_shell(x, c, env), "shell")
         IN IF y.raised THEN y ELSE [y EXCEPT !.status = state]

\* variant: smart detection stays as it is, only the cached status is reset
force_power_cycle_keeping_detection(x, c, env) ==
    transition([x EXCEPT !.status = "unknown"], c, "shell", env)

\* variant: the flag is restored only when the transition returns
force_power_cycle_no_finally(x, c, env) ==
    LET original_smart_detection == x.smart
        a == [x EXCEPT !.smart = FALSE, !.status = "unknown"]
        b == transition(a, c, "shell", env)
    IN IF b.raised THEN b ELSE [b EXCEPT !.smart = original_smart_detection]

\* variant: the cached status is not reset before the transition
force_power_cycle_keeping_status(x, c, env) ==
    LET original_smart_detection == x.smart
        a == [x EXCEPT !.smart = FALSE]
        b == transition(a, c, "shell", env)
    IN [b EXCEPT !.smart = original_smart_detection]

force_power_cycle(x, c, env) ==
    LET original_smart_detection == x.smart
        a == [x EXCEPT !.smart = FALSE, !.status = "unknown"]
        b == transition(a, c, "shell", env)
    IN [b EXCEPT !.smart = original_smart_detection]

ensure_off(x, c, env) ==
    IF x.status # "off" THEN transition(x, c, "off", env) ELSE x

\* What the SSH session does during the graceful shutdown: the driver cannot
\* be obtained, the poweroff command raises, or the session answers
\* `answered` probes before the first probe that raises.
SshEnvs ==
    {[avail |-> FALSE, cmd_ok |-> FALSE, answered |-> 0],
     [avail |-> TRUE, cmd_ok |-> FALSE, answered |-> 0]}
    \cup {[avail |-> TRUE, cmd_ok |-> TRUE, answered |-> k] : k \in 0..MAX_WAIT_CYCLES}

NoSsh == [avail |-> FALSE, cmd_ok |-> FALSE, answered |-> -1]

\* for cycle in range(MAX_WAIT_CYCLES): if _is_ssh_connection_dead: return
RECURSIVE shutdown_cycles(_, _, _)
shutdown_cycles(x, ssh, cycle) ==
    IF cycle >= MAX_WAIT_CYCLES THEN Emit(x, "log", "shutdown timeout warning")
    ELSE LET p == Emit(x, "ssh", "true") IN
         IF cycle >= ssh.answered THEN p
         ELSE shutdown_cycles(p, ssh, cycle + 1)

\* variant: a failure of the poweroff command is not caught
attempt_graceful_ssh_shutdown_propagating(x, ssh) ==
    IF ~ssh.avail THEN x
    ELSE LET a == activate(x, "ssh") IN
         IF ~ssh.cmd_ok THEN Raise(Emit(a, "error", "ssh poweroff"))
         ELSE shutdown_cycles(Emit(a, "ssh", "poweroff"), ssh, 0)

\* every exception is caught and logged
attempt_graceful_ssh_shutdown(x, ssh) ==
    IF ~ssh.avail THEN x
    ELSE LET a == activate(x, "ssh") IN
         IF ~ssh.cmd_ok THEN Emit(a, "error", "ssh poweroff")
         ELSE shutdown_cycles(Emit(a, "ssh", "poweroff"), ssh, 0)

cleanup_and_shutdown(x, c, ssh, env) ==
    LET a == IF x.status = "shell" THEN attempt_graceful_ssh_shutdown(x, ssh) ELSE x
    IN ensure_off(a, c, env)

----------------------------------------------------------------------------
(* Network reconciliation: configure_libremesh_network *)

deactivate(x, d) ==
    IF x.raised THEN x
    ELSE [x EXCEPT !.active = @ \ {d}, !.events = Append(@, <<"deactivate", d>>)]

RECURSIVE EmitAll(_, _, _, _)
EmitAll(x, chan, cmds, i) ==
    IF i > Len(cmds) THEN x ELSE EmitAll(Emit(x, chan, cmds[i]), chan, cmds, i + 1)

\* What the network answers while it is reconfigured.
\*   ssh     the SSH attempt: "ok" the session is back after the restart,
\*           "recovered" it is back only after the serial recovery, "lost" it
\*           never is, "unavailable" the driver cannot be obtained or activated
\*   family  what firmware detection finds over serial ("raise": it raised)
\*   run     what the polling loop does after a reboot
\*   after   SSH after the serial configuration: "ok", "recovered" or "lost"
NoNet == [ssh |-> "-", family |-> "-", run |-> NoWait, after |-> "-"]

ssh_config_commands ==
    <<"uci set network.lan.proto='dhcp'", "uci commit network",
      "/etc/init.d/network restart">>

\* _wait_for_ssh_available; an exception of a try is a failed try
wait_for_ssh_available(x, up) ==
    LET a == Emit(x, "ssh", "echo test")
    IN IF x.raised THEN [x |-> x, ret |-> FALSE]
       ELSE IF up THEN [x |-> [a EXCEPT !.active = @ \cup {"ssh"}], ret |-> TRUE]
       ELSE [x |-> [a EXCEPT !.active = @ \ {"ssh"}], ret |-> FALSE]

\* _force_ssh_up_via_serial; every exception is caught and answers False
force_ssh_up_via_serial(x, c, up) ==
    IF x.raised \/ ~c.has_serial THEN [x |-> x, ret |-> FALSE]
    ELSE wait_for_ssh_available(
             EmitAll(activate(x, "serial"), "serial",
                     <<"/etc/init.d/lime-config stop", "/etc/init.d/lime-config disable",
                       "uci set network.lan.proto=dhcp; uci commit network",
                       "/etc/init.d/network restart", "/etc/init.d/dropbear restart">>, 1),
             up)

try_configure_network_via_ssh(x, c, net) ==
    IF x.raised \/ net.ssh = "unavailable" THEN [x |-> x, ret |-> FALSE]
    ELSE LET a == EmitAll(activate(x, "ssh"), "ssh", ssh_config_commands, 1)
             b == sleep(deactivate(a, "ssh"), "post_dhcp_wait")
             w == wait_for_ssh_available(b, net.ssh = "ok")
         IN IF w.ret THEN w
            ELSE force_ssh_up_via_serial(w.x, c, net.ssh = "recovered")

\* _flush_serial_buffer; every exception is caught
flush_serial_buffer(x, c) ==
    IF ~c.has_serial THEN x
    ELSE Emit(Emit(activate(x, "serial"), "serial", ""), "serial", "")

\* _detect_firmware_type: an exception counts as LibreMesh
\* variant: a detection that raised counts as plain OpenWrt
is_libremesh_detected_only(c, net) ==
    c.has_serial /\ net.family \in {"hostname", "package"}

is_libremesh(c, net) ==
    ~c.has_serial \/ net.family \in {"hostname", "package", "raise"}

detect_firmware_type(x, c, net) ==
    IF ~c.has_serial THEN x
    ELSE IF net.family \in {"hostname", "raise"} THEN Emit(x, "serial", "uname -n")
    ELSE Emit(Emit(x, "serial", "uname -n"), "serial", "opkg list-installed")

network_restart(reboot_after) ==
    IF reboot_after THEN <<>> ELSE <<"/etc/init.d/network restart">>

get_libremesh_network_commands(reboot_after) ==
    <<"uci set lime-defaults.lan.proto=dhcp",
      "uci -q delete lime-defaults.lan.ipaddr",
      "uci -q delete lime-defaults.lan.netmask",
      "uci commit lime-defaults",
      "uci set lime.lan.proto=dhcp",
      "uci -q delete lime.lan.ipaddr",
      "uci -q delete lime.lan.netmask",
      "uci commit lime",
      "uci set network.lan.proto=dhcp",
      "uci -q delete network.lan.ipaddr",
      "uci -q delete network.lan.netmask",
      "uci commit network",
      "/etc/init.d/lime-config disable",
      "sync">> \o network_restart(reboot_after)

get_openwrt_network_commands(reboot_after) ==
    <<"uci set network.lan.proto=dhcp",
      "uci -q delete network.lan.ipaddr",
      "uci -q delete network.lan.netmask",
      "uci commit network",
      "sync">> \o network_restart(reboot_after)

get_network_config_commands(libremesh, reboot_after) ==
    IF libremesh THEN get_libremesh_network_commands(reboot_after)
    ELSE get_openwrt_network_commands(reboot_after)

\* get_driver("SerialDriver") raises when no serial capability is bound; an
\* exception of a single command is caught.
execute_network_config_commands_via_serial(x, c, commands) ==
    IF x.raised THEN x
    ELSE IF ~c.has_serial THEN Raise(Emit(x, "error", "SerialDriver"))
    ELSE EmitAll(x, "serial", commands, 1)

\* _reboot_and_wait_for_shell
reboot_and_wait_for_shell(x, c, net) ==
    LET a == Emit(x, "serial", "echo ready_to_reboot")
        b == Emit(deactivate(a, "shell"), "serial", "reboot")
    IN wait_for_shell(sleep(b, "reboot_wait"), c, net.run)

\* variant: the serial configuration returns whether or not SSH came up
configure_network_via_serial_unverified(x, c, reboot_after, net) ==
    LET a == detect_firmware_type(flush_serial_buffer(activate(x, "shell"), c), c, net)
        b == execute_network_config_commands_via_serial(
                 a, c, get_network_config_commands(is_libremesh(c, net), reboot_after))
        d == IF reboot_after THEN reboot_and_wait_for_shell(b, c, net)
             ELSE sleep(b, "network_init")
        w == wait_for_ssh_available(d, net.after = "ok")
        f == force_ssh_up_via_serial(w.x, c, net.after = "recovered")
    IN IF d.raised \/ w.ret \/ f.ret THEN (IF w.ret THEN w.x ELSE f.x)
       ELSE f.x

configure_network_via_serial(x, c, reboot_after, net) ==
    LET a == detect_firmware_type(flush_serial_buffer(activate(x, "shell"), c), c, net)
        b == execute_network_config_commands_via_serial(
                 a, c, get_network_config_commands(is_libremesh(c, net), reboot_after))
        d == IF reboot_after THEN reboot_and_wait_for_shell(b, c, net)
             ELSE sleep(b, "network_init")
        w == wait_for_ssh_available(d, net.after = "ok")
        f == force_ssh_up_via_serial(w.x, c, net.after = "recovered")
    IN IF d.raised \/ w.ret \/ f.ret THEN (IF w.ret THEN w.x ELSE f.x)
       ELSE Raise(Emit(f.x, "error", "SSH is not available"))

\* variant: the serial configuration follows the SSH attempt whatever it
\* answered
configure_libremesh_network_serial_always(x, c, reboot_after, net) ==
    LET t == try_configure_network_via_ssh(x, c, net)
    IN IF x.raised THEN x
       ELSE configure_network_via_serial(t.x, c, reboot_after, net)

configure_libremesh_network(x, c, reboot_after, net) ==
    LET t == try_configure_network_via_ssh(x, c, net)
    IN IF x.raised THEN x
       ELSE IF t.ret THEN t.x
       ELSE configure_network_via_serial(t.x, c, reboot_after, net)

----------------------------------------------------------------------------
(* Bootloader recovery: attempt_uboot_recovery.  rc is the recovery        *)
(* configuration of the strategy and the capabilities it needs:            *)
(*   [enable_uboot_recovery, max_recovery_attempts, uboot_interrupt_count, *)
(*    uboot_boot_wait, has_uboot]                                          *)
(* has_uboot tells whether a UBootDriver is bound to the target.           *)
(* rec is what one recovery run meets:                                     *)
(*   tftp      the initramfs: "copied" into the TFTP root, already         *)
(*             "present" there, or "missing" everywhere                    *)
(*   fault     the power command that raises ("none": neither does)        *)
(*   boot      "ok", or "raise": the bootloader's boot commands raise      *)
(*   answer_at the poll at which the console answers the probe (0: never)  *)
(*   probe     what it answers then                                        *)
(*   upload    "ssh", or "unavailable": the SSH upload raises              *)
(*   serverip  the bootloader's commands hold a `setenv serverip` entry    *)
(*   download  "ok", or "raise": the TFTP download raises                  *)

\* Bounds of the model: interrupt bytes written, polls after the RAM boot,
\* and the recovery attempts a strategy can be configured with.
MaxInterruptCount == 2
MaxBootWait == 2
MaxRecoveryAttempts == 2

NoRec ==
    [tftp |-> "-", fault |-> "none", boot |-> "-", answer_at |-> 0,
     probe |-> NoProbe, upload |-> "-", serverip |-> FALSE, download |-> "-"]

\* _prepare_tftp_files
prepare_tftp_files(x, rec) ==
    IF x.raised THEN x
    ELSE IF rec.tftp = "missing" THEN Raise(Emit(x, "error", "initramfs not found"))
    ELSE IF rec.tftp = "copied" THEN Emit(x, "tftp", "copy initramfs")
    ELSE x

\* _deactivate_driver_safely
deactivate_driver_safely(x, d) == IF d \in x.active THEN deactivate(x, d) ELSE x

deactivate_shell_and_ssh(x) ==
    deactivate_driver_safely(deactivate_driver_safely(x, "shell"), "ssh")

prepare_device_for_uboot(x, rec) ==
    deactivate_shell_and_ssh(
        sleep(power_command(activate(x, "power"), "power.off", rec.fault),
              "uboot_power_off_wait"))

\* for _ in range(uboot_interrupt_count): sleep; serial.write(b' ')
interrupt_uboot_bootloader(x, rc) == Repeat(x, "serial.write", " ", rc.uboot_interrupt_count)

load_and_boot_initramfs(x, rec) ==
    LET a == activate(x, "uboot")
    IN IF x.raised THEN x
       ELSE IF rec.boot = "raise" THEN Raise(Emit(a, "error", "uboot.boot"))
       ELSE deactivate(Emit(Emit(a, "uboot", "boot"), "uboot", "await_boot"), "uboot")

\* The loop of _wait_for_shell_after_uboot_boot from poll i on;
\* _attempt_shell_activation is one poll.
RECURSIVE uboot_shell_polls(_, _, _, _, _)
uboot_shell_polls(x, c, rc, rec, i) ==
    IF i > rc.uboot_boot_wait
    THEN Raise(Emit(x, "error", "no shell after initramfs boot"))
    ELSE LET chk == check_shell_active(x, c, IF i = rec.answer_at THEN rec.probe
                                              ELSE "timeout")
         IN IF chk.ret THEN activate(chk.x, "shell")
            ELSE uboot_shell_polls(sleep(chk.x, "1"), c, rc, rec, i + 1)

wait_for_shell_after_uboot_boot(x, c, rc, rec) ==
    IF x.raised THEN x
    ELSE uboot_shell_polls([x EXCEPT !.status = "unknown"], c, rc, rec, 1)

\* variant: the interrupt characters are written before power is on
boot_initramfs_from_uboot_interrupt_first(x, c, rc, rec) ==
    wait_for_shell_after_uboot_boot(
        load_and_boot_initramfs(
            power_command(interrupt_uboot_bootloader(activate(x, "serial"), rc),
                          "power.on", rec.fault),
            rec),
        c, rc, rec)

boot_initramfs_from_uboot(x, c, rc, rec) ==
    wait_for_shell_after_uboot_boot(
        load_and_boot_initramfs(
            interrupt_uboot_bootloader(
                power_command(activate(x, "serial"), "power.on", rec.fault), rc),
            rec),
        c, rc, rec)

RecoveryPath == "/tmp/recovery_sysupgrade.bin"
TftpPath == "/tmp/firmware.bin"

\* variant: a missing serverip entry is not an error
download_firmware_via_tftp_any_server(x, rc, rec) ==
    LET a == Emit(x, "tftp", "copy sysupgrade")
    IN IF rec.download = "raise" THEN Raise(Emit(a, "error", "tftp -g"))
       ELSE Emit(a, "shell", "tftp -g")

\* _download_firmware_via_tftp
download_firmware_via_tftp(x, rc, rec) ==
    LET a == Emit(x, "tftp", "copy sysupgrade")
    IN IF ~rec.serverip THEN Raise(Emit(a, "error", "serverip not found"))
       ELSE IF rec.download = "raise" THEN Raise(Emit(a, "error", "tftp -g"))
       ELSE Emit(a, "shell", "tftp -g")

\* _upload_sysupgrade_firmware: the context and the path on the device
upload_sysupgrade_firmware(x, rc, rec) ==
    IF x.raised THEN [x |-> x, path |-> "-"]
    ELSE IF rec.upload = "ssh"
    THEN [x |-> Emit(activate(x, "ssh"), "ssh", "put"), path |-> RecoveryPath]
    ELSE [x |-> download_firmware_via_tftp(x, rc, rec), path |-> TftpPath]

\* sendline(f"sysupgrade -n -F {firmware_path}")
sysupgrade_command(path) ==
    IF path = RecoveryPath THEN "sysupgrade -n -F /tmp/recovery_sysupgrade.bin"
    ELSE "sysupgrade -n -F /tmp/firmware.bin"

\* _execute_sysupgrade and _wait_for_device_reboot_after_sysupgrade, the
\* firmware being at up.path
sysupgrade_and_wait(up) ==
    LET a == Emit(up.x, "console", sysupgrade_command(up.path))
        b == deactivate_shell_and_ssh(sleep(a, "REBOOT_START_DELAY"))
    IN IF up.x.raised THEN up.x ELSE [b EXCEPT !.status = "unknown"]

\* variant: the command always names the path of the SSH upload
persist_sysupgrade_firmware_fixed_path(x, rc, rec) ==
    sysupgrade_and_wait(
        [x |-> upload_sysupgrade_firmware(x, rc, rec).x, path |-> RecoveryPath])

persist_sysupgrade_firmware(x, rc, rec) ==
    sysupgrade_and_wait(upload_sysupgrade_firmware(x, rc, rec))

\* variant: the serial capability is looked up when it is first used
attempt_uboot_recovery_late_lookup(x, c, rc, rec) ==
    LET p == prepare_device_for_uboot(prepare_tftp_files(x, rec), rec)
    IN IF x.raised THEN x
       ELSE IF ~rc.has_uboot THEN Raise(x)
       ELSE IF ~c.has_serial THEN Raise(p)
       ELSE persist_sysupgrade_firmware(boot_initramfs_from_uboot(p, c, rc, rec), rc, rec)

\* Both capabilities are looked up before anything else is done.
attempt_uboot_recovery(x, c, rc, rec) ==
    IF x.raised THEN x
    ELSE IF ~rc.has_uboot THEN Raise(x)
    ELSE IF ~c.has_serial THEN Raise(x)
    ELSE persist_sysupgrade_firmware(
             boot_initramfs_from_uboot(
                 prepare_device_for_uboot(prepare_tftp_files(x, rec), rec),
                 c, rc, rec),
             rc, rec)

----------------------------------------------------------------------------
(* flash_firmware: the boot and recovery loop *)

\* _deactivate_drivers_after_flash; every exception is caught
deactivate_drivers_after_flash(x) == deactivate(deactivate(x, "ssh"), "shell")

\* variant: an exception of flash() is caught and the boot is awaited
perform_firmware_flash_absorbing(x, y) ==
    LET a == [Emit(x, "sysupgrade", "flash") EXCEPT !.active = y.active]
    IN [deactivate_drivers_after_flash(a) EXCEPT !.status = "unknown"]

\* _perform_firmware_flash once the driver is found: y is how its flash()
\* ended; an exception of flash() is not caught
perform_firmware_flash(x, y) ==
    LET a == [Emit(x, "sysupgrade", "flash") EXCEPT !.active = y.active]
    IN IF y.raised THEN Raise(a)
       ELSE [deactivate_drivers_after_flash(a) EXCEPT !.status = "unknown"]

\* _try_boot_and_configure: every exception is caught and answers False
try_boot_and_configure(x, c, env, net) ==
    LET b == configure_libremesh_network(transition(x, c, "shell", env), c, TRUE, net)
    IN [x |-> [b EXCEPT !.raised = FALSE], ret |-> ~b.raised]

\* variant: a recovery is still attempted when the counter stands at the
\* maximum
should_attempt_recovery_inclusive(rc, current_attempt) ==
    current_attempt <= rc.max_recovery_attempts /\ rc.enable_uboot_recovery

should_attempt_recovery(rc, current_attempt) ==
    current_attempt < rc.max_recovery_attempts /\ rc.enable_uboot_recovery

\* variant: the attempt before the last one is taken for the final one
is_final_recovery_attempt_early(rc, attempt_number) ==
    attempt_number + 2 >= rc.max_recovery_attempts

is_final_recovery_attempt(rc, attempt_number) ==
    attempt_number + 1 >= rc.max_recovery_attempts

RecoveryFailed == <<"log", "U-Boot recovery attempt failed">>

\* _perform_recovery_attempt: a failed recovery is logged, and raises only on
\* the final attempt
perform_recovery_attempt(x, c, rc, rec, attempt_number) ==
    LET r == attempt_uboot_recovery(Emit(x, "log", "Starting U-Boot recovery attempt"),
                                    c, rc, rec)
    IN IF ~r.raised THEN r
       ELSE [Emit([r EXCEPT !.raised = FALSE], RecoveryFailed[1], RecoveryFailed[2])
             EXCEPT !.raised = is_final_recovery_attempt(rc, attempt_number)]

----------------------------------------------------------------------------
(* Text: a string is a sequence of atoms (characters, or words that no     *)
(* operation looks into); a command's stdout is a sequence of such lines.  *)

Blank == " "

DigitChar == <<"0", "1", "2", "3", "4", "5", "6", "7", "8", "9">>

IsDigit(c) == \E n \in 1..Len(DigitChar) : DigitChar[n] = c

DigitVal(c) == (CHOOSE n \in 1..Len(DigitChar) : DigitChar[n] = c) - 1

\* What the device prints for a number.
RECURSIVE Decimal(_)
Decimal(n) ==
    IF n < Len(DigitChar) THEN <<DigitChar[n + 1]>>
    ELSE Append(Decimal(n \div Len(DigitChar)), DigitChar[(n % Len(DigitChar)) + 1])

\* str.strip(chars)
RECURSIVE lstrip(_, _)
lstrip(s, chars) ==
    IF s # <<>> /\ Head(s) \in chars THEN lstrip(Tail(s), chars) ELSE s

RECURSIVE rstrip(_, _)
rstrip(s, chars) ==
    IF s # <<>> /\ s[Len(s)] \in chars
    THEN rstrip(SubSeq(s, 1, Len(s) - 1), chars) ELSE s

strip_chars(s, chars) == rstrip(lstrip(s, chars), chars)

strip(s) == strip_chars(s, {Blank})

\* str.split(): the fields between runs of whitespace, in order
FieldStarts(s) ==
    {i \in 1..Len(s) : s[i] # Blank /\ (i = 1 \/ s[i - 1] = Blank)}

FieldEnd(s, i) ==
    CHOOSE j \in i..Len(s) :
        /\ \A k \in i..j : s[k] # Blank
        /\ j = Len(s) \/ s[j + 1] = Blank

split(s) ==
    [n \in 1..Cardinality(FieldStarts(s)) |->
        LET i == CHOOSE i \in FieldStarts(s) :
                     Cardinality({j \in FieldStarts(s) : j < i}) = n - 1
        IN SubSeq(s, i, FieldEnd(s, i))]

\* int(text); ValueError is the value below
ValueError == -1

RECURSIVE digits_value(_, _)
digits_value(s, acc) ==
    IF s = <<>> THEN acc
    ELSE digits_value(Tail(s), acc * Len(DigitChar) + DigitVal(Head(s)))

int(text) ==
    LET t == strip(text)
    IN IF t = <<>> \/ \E i \in 1..Len(t) : ~IsDigit(t[i]) THEN ValueError
       ELSE digits_value(t, 0)

\* `sub in text`
Contains(sub, text) ==
    \E i \in 0..(Len(text) - Len(sub)) : SubSeq(text, i + 1, i + Len(sub)) = sub

Reply(exit, stdout) == [exit |-> exit, stdout |-> stdout]

----------------------------------------------------------------------------
(* SysupgradeDriver.  An operation runs in a context y                     *)
(*   [active, events, raised, returned, error, need]                       *)
(* and reads its inputs - the caller's arguments, the local image, what    *)
(* the device answers - from a record inp.  inp.known names the inputs     *)
(* drawn so far: an operation that comes to read another one stops with    *)
(* y.need naming it.  So every input the code reads ranges over its whole  *)
(* set, and an input the code never reads is never drawn.                  *)

BYTES_PER_KILOBYTE == 1024
BYTES_PER_MEGABYTE == 1024 * 1024
DEFAULT_TMP_SPACE_MARGIN_MB == 2
SYSINFO_BOARD_PATH == "/tmp/sysinfo/board_name"
OPENWRT_RELEASE_PATH == "/etc/openwrt_release"
DEFAULT_REMOTE_PATH == "/tmp/sysupgrade.bin"
KEEP_CONFIG_FLAG == "-n"
FORCE_DOWNGRADE_FLAG == "-F"
VALIDATE_IMAGE_FLAG == "-T"
LS_SIZE_FIELD_INDEX == 4
DF_AVAILABLE_FIELD_INDEX == 3
SHA256_HASH_FIELD_INDEX == 0

\* Image sizes run from one kilobyte to MaxExtraBytes above it.
MaxExtraBytes == 1

DCtx(ac) ==
    [active |-> ac, events |-> <<>>, raised |-> FALSE, returned |-> FALSE,
     error |-> "none", need |-> "-"]

Done(y) == y.raised \/ y.returned \/ y.need # "-"

Ask(y, inp, field) ==
    IF Done(y) \/ field \in inp.known THEN y ELSE [y EXCEPT !.need = field]

Log(y, chan, argv) ==
    IF Done(y) THEN y ELSE [y EXCEPT !.events = Append(@, <<chan, argv>>)]

Fail(y, kind) ==
    IF Done(y) THEN y ELSE [y EXCEPT !.raised = TRUE, !.error = kind]

Finish(y) == IF Done(y) THEN y ELSE [y EXCEPT !.returned = TRUE]

\* An optional bool argument: "None", "True" or "False".
Tri == {"None", "True", "False"}

OrDefault(arg, default) == IF arg = "None" THEN default ELSE arg = "True"

\* __attrs_post_init__; the attribute force is read nowhere else.
attrs_post_init(a) ==
    [keep_config |-> a.keep_config,
     allow_downgrade |-> OrDefault(a.allow_downgrade, a.force),
     expected_board |-> a.expected_board,
     skip_if_installed |-> a.skip_if_installed,
     tmp_space_margin_mb |-> a.tmp_space_margin_mb,
     validate_only |-> a.validate_only]

\* A definition that names an operation's result is an operator parameter
\* (r, rs, rh, sha, size below), so the result is computed once.

check_sysupgrade_available(y, inp) ==
    LET y1 == Log(Ask(y, inp, "sysupgrade"), "shell", <<"command", "-v", "sysupgrade">>)
        r == inp.sysupgrade
    IN IF Done(y) THEN y
       ELSE IF Done(y1) THEN y1
       ELSE IF r.exit # 0 \/ r.stdout = <<>> THEN Fail(y1, "sysupgrade_unavailable")
       ELSE y1

NotKernelMessage(line) == line # <<>> /\ Head(line) # "["

board_lines(stdout) ==
    SelectSeq([i \in 1..Len(stdout) |-> strip(stdout[i])], NotKernelMessage)

get_board_name(y, inp) ==
    LET y1 == Log(Ask(y, inp, "board"), "shell", <<"cat", SYSINFO_BOARD_PATH>>)
        r == inp.board
    IN IF Done(y) THEN [y |-> y, val |-> <<>>]
       ELSE IF Done(y1) THEN [y |-> y1, val |-> <<>>]
       ELSE IF r.exit # 0 THEN [y |-> Fail(y1, "board_read_failed"), val |-> <<>>]
       ELSE IF r.stdout = <<>> THEN [y |-> Fail(y1, "board_empty"), val |-> <<>>]
       ELSE IF board_lines(r.stdout) = <<>>
            THEN [y |-> Fail(y1, "board_only_kernel_messages"), val |-> <<>>]
       ELSE [y |-> y1, val |-> board_lines(r.stdout)[1]]

\* validate_board with a mismatch let through when a downgrade is allowed.
board_checked_unless_forced(r, d) ==
    IF r.val # d.expected_board /\ ~d.allow_downgrade
    THEN Fail(r.y, "board_mismatch") ELSE r.y

\* validate_board once the board name r is read
board_checked(r, d) ==
    IF r.val # d.expected_board THEN Fail(r.y, "board_mismatch") ELSE r.y

\* _warn_ubi_mismatch only logs.
validate_board(y, d, inp) ==
    IF Done(y) \/ d.expected_board = <<>> THEN y
    ELSE board_checked(get_board_name(y, inp), d)

verify_local_checksum(y, inp) ==
    LET y1 == Ask(Ask(y, inp, "local_sha"), inp, "expected_sha256")
        actual_sha256 == inp.local_sha
    IN IF Done(y) THEN [y |-> y, val |-> <<>>]
       ELSE IF inp.expected_sha256 # <<>> /\ actual_sha256 # inp.expected_sha256
            THEN [y |-> Fail(y1, "local_sha_mismatch"), val |-> actual_sha256]
       ELSE [y |-> y1, val |-> actual_sha256]

get_file_size(y, inp) ==
    IF Done(y) THEN [y |-> y, val |-> 0]
    ELSE [y |-> Ask(y, inp, "local_size"), val |-> inp.local_size]

\* The file the device holds at remote_path, as its commands report it.
stat_reply(kind, size) ==
    CASE kind = "ok" -> Reply(0, <<Decimal(size)>>)
      [] kind = "padded" -> Reply(0, <<Decimal(size) \o <<Blank>>>>)
      [] kind = "garbled" -> Reply(0, <<<<"?">>>>)
      [] kind = "missing" -> Reply(127, <<>>)

ls_reply(kind, size) ==
    CASE kind = "ok" ->
             Reply(0, <<<<"-rw-r--r--", Blank, Blank, "1", Blank, "root", Blank, "root", Blank>>
                        \o Decimal(size)
                        \o <<Blank, "Jan", Blank, "1", Blank, "00:00", Blank, DEFAULT_REMOTE_PATH>>>>)
      [] kind = "short" -> Reply(0, <<<<"-rw-r--r--", Blank, "1">>>>)
      [] kind = "empty" -> Reply(0, <<>>)
      [] kind = "fail" -> Reply(1, <<>>)

sha256sum_reply(kind, sha) ==
    CASE kind = "ok" -> Reply(0, <<sha \o <<Blank, Blank, DEFAULT_REMOTE_PATH>>>>)
      [] kind = "blank" -> Reply(0, <<<<Blank>>>>)
      [] kind = "empty" -> Reply(0, <<>>)
      [] kind = "fail" -> Reply(1, <<>>)

\* _get_remote_sha256 once sha256sum has answered r
sha256_parsed(y, r) ==
    IF r.exit # 0 THEN [y |-> Fail(y, "sha_failed"), val |-> <<>>]
    ELSE IF r.stdout = <<>> THEN [y |-> Fail(y, "sha_no_output"), val |-> <<>>]
    ELSE IF Len(split(r.stdout[1])) <= SHA256_HASH_FIELD_INDEX
         THEN [y |-> Fail(y, "sha_parse"), val |-> <<>>]
    ELSE [y |-> y, val |-> split(r.stdout[1])[SHA256_HASH_FIELD_INDEX + 1]]

get_remote_sha256(y, inp) ==
    LET y1 == Log(Ask(Ask(y, inp, "sum"), inp, "sha"), "ssh", <<"sha256sum">>)
    IN IF Done(y) THEN [y |-> y, val |-> <<>>]
       ELSE IF Done(y1) THEN [y |-> y1, val |-> <<>>]
       ELSE sha256_parsed(y1, sha256sum_reply(inp.sum, inp.sha))

\* the stat branch of _get_remote_file_size
size_by_stat(r) ==
    IF r.exit = 0 /\ r.stdout # <<>> THEN int(r.stdout[1]) ELSE ValueError

\* the ls branch of _get_remote_file_size once ls has answered r
size_by_ls(y, r) ==
    IF r.exit # 0 THEN [y |-> Fail(y, "size_failed"), val |-> ValueError]
    ELSE IF r.stdout = <<>> \/ Len(split(r.stdout[1])) <= LS_SIZE_FIELD_INDEX
            \/ int(split(r.stdout[1])[LS_SIZE_FIELD_INDEX + 1]) = ValueError
         THEN [y |-> Fail(y, "size_parse"), val |-> ValueError]
    ELSE [y |-> y, val |-> int(split(r.stdout[1])[LS_SIZE_FIELD_INDEX + 1])]

get_remote_file_size(y, inp) ==
    LET y1 == Log(Ask(Ask(y, inp, "size"), inp, "stat"), "ssh", <<"stat", "-c", "%s">>)
        y2 == Log(Ask(y1, inp, "ls"), "ssh", <<"ls", "-l">>)
    IN IF Done(y) THEN [y |-> y, val |-> ValueError]
       ELSE IF Done(y1) THEN [y |-> y1, val |-> ValueError]
       ELSE IF size_by_stat(stat_reply(inp.stat, inp.size)) # ValueError
            THEN [y |-> y1, val |-> size_by_stat(stat_reply(inp.stat, inp.size))]
       ELSE IF Done(y2) THEN [y |-> y2, val |-> ValueError]
       ELSE size_by_ls(y2, ls_reply(inp.ls, inp.size))

\* The free-space comparison with equality rejected.
space_checked_strict(y, d, fields, required_bytes) ==
    LET available_kilobytes == int(fields[DF_AVAILABLE_FIELD_INDEX + 1])
        available_bytes == available_kilobytes * BYTES_PER_KILOBYTE
        margin_bytes == d.tmp_space_margin_mb * BYTES_PER_MEGABYTE
        required_with_margin == required_bytes + margin_bytes
    IN IF Len(fields) <= DF_AVAILABLE_FIELD_INDEX \/ available_kilobytes = ValueError
       THEN Fail(y, "df_parse")
       ELSE IF available_bytes <= required_with_margin THEN Fail(y, "insufficient_space")
       ELSE y

\* _check_tmp_space once df has answered with these fields
space_checked(y, d, fields, required_bytes) ==
    LET available_kilobytes == int(fields[DF_AVAILABLE_FIELD_INDEX + 1])
        available_bytes == available_kilobytes * BYTES_PER_KILOBYTE
        margin_bytes == d.tmp_space_margin_mb * BYTES_PER_MEGABYTE
        required_with_margin == required_bytes + margin_bytes
    IN IF Len(fields) <= DF_AVAILABLE_FIELD_INDEX \/ available_kilobytes = ValueError
       THEN Fail(y, "df_parse")
       ELSE IF available_bytes < required_with_margin THEN Fail(y, "insufficient_space")
       ELSE y

check_tmp_space(y, d, inp, required_bytes) ==
    LET y1 == Log(Ask(y, inp, "df"), "ssh", <<"df", "-P", "/tmp">>)
        r == inp.df
    IN IF Done(y) THEN y
       ELSE IF Done(y1) THEN y1
       ELSE IF r.exit # 0 THEN Fail(y1, "df_failed")
       ELSE IF r.stdout = <<>> THEN Fail(y1, "df_parse")
       ELSE space_checked(y1, d, split(r.stdout[1]), required_bytes)

\* verify_remote_integrity once the remote size rs is read
size_checked(rs, expected_size) ==
    IF rs.val # expected_size THEN Fail(rs.y, "size_mismatch") ELSE rs.y

\* verify_remote_integrity once the remote checksum rh is read
sha256_checked(rh, expected_sha256) ==
    IF rh.val # expected_sha256 THEN Fail(rh.y, "sha_mismatch") ELSE rh.y

\* The read-back check with the checksum comparison left out.
verify_remote_integrity_size_only(y, inp, expected_sha256, expected_size) ==
    size_checked(get_remote_file_size(y, inp), expected_size)

verify_remote_integrity(y, inp, expected_sha256, expected_size) ==
    sha256_checked(
        get_remote_sha256(size_checked(get_remote_file_size(y, inp), expected_size), inp),
        expected_sha256)

\* /etc/openwrt_release: the value of `key`, quotes stripped, '' if absent
\* (a later line replaces an earlier one).
KeyOf(line) == SubSeq(line, 1, Index(line, "=") - 1)

ValueOf(line) ==
    strip_chars(strip(SubSeq(line, Index(line, "=") + 1, Len(line))), {"'", "\""})

RECURSIVE version_get(_, _, _)
version_get(stdout, key, i) ==
    IF i = 0 THEN <<>>
    ELSE IF Has(stdout[i], "=") /\ KeyOf(stdout[i]) = <<key>> THEN ValueOf(stdout[i])
    ELSE version_get(stdout, key, i - 1)

\* check_if_installed looking at DISTRIB_RELEASE only.
check_if_installed_release_only(y, inp, expected_version) ==
    LET y1 == Log(Ask(y, inp, "release"), "shell", <<"cat", OPENWRT_RELEASE_PATH>>)
        r == inp.release
        release == version_get(r.stdout, "DISTRIB_RELEASE", Len(r.stdout))
    IN IF Done(y) \/ expected_version = <<>> THEN [y |-> y, val |-> FALSE]
       ELSE IF Done(y1) \/ r.exit # 0 THEN [y |-> y1, val |-> FALSE]
       ELSE [y |-> y1, val |-> Contains(expected_version, release)]

\* An exception of _get_installed_version is caught: not installed.
check_if_installed(y, inp, expected_version) ==
    LET y1 == Log(Ask(y, inp, "release"), "shell", <<"cat", OPENWRT_RELEASE_PATH>>)
        r == inp.release
        release == version_get(r.stdout, "DISTRIB_RELEASE", Len(r.stdout))
        revision == version_get(r.stdout, "DISTRIB_REVISION", Len(r.stdout))
    IN IF Done(y) \/ expected_version = <<>> THEN [y |-> y, val |-> FALSE]
       ELSE IF Done(y1) \/ r.exit # 0 THEN [y |-> y1, val |-> FALSE]
       ELSE [y |-> y1,
             val |-> Contains(expected_version, release)
                     \/ Contains(expected_version, revision)]

\* flash(): return where check_if_installed answered r
skipped_if_installed(r) == IF ~Done(r.y) /\ r.val THEN Finish(r.y) ELSE r.y

\* flash(): the skip_if_installed step
skip_if_installed(y, d, inp) ==
    LET y1 == Ask(y, inp, "expected_version")
    IN IF Done(y) \/ ~d.skip_if_installed THEN y
       ELSE IF Done(y1) \/ inp.expected_version = <<>> THEN y1
       ELSE skipped_if_installed(check_if_installed(y1, inp, inp.expected_version))

\* flash(): get_driver("SSHDriver") and its activation
get_ssh_driver(y, inp) ==
    LET y1 == Ask(y, inp, "ssh")
    IN IF Done(y) THEN y
       ELSE IF Done(y1) THEN y1
       ELSE IF inp.ssh = "ok" THEN [y1 EXCEPT !.active = @ \cup {"ssh"}]
       ELSE Fail(y1, "no_ssh")

\* flash(): ssh_driver.put
put(y, inp) ==
    LET y1 == Log(Ask(y, inp, "put"), "ssh", <<"put">>)
    IN IF Done(y) THEN y
       ELSE IF Done(y1) \/ inp.put = "ok" THEN y1
       ELSE Fail(y1, "upload_failed")

\* The `sysupgrade -T` step of flash() with its exit code ignored.
validate_image_ignoring_exit(y, inp) ==
    LET y1 == Ask(y, inp, "validate")
        y2 == Log(Ask(y1, inp, "test"), "ssh", <<"sysupgrade", VALIDATE_IMAGE_FLAG>>)
    IN IF Done(y) THEN y
       ELSE IF Done(y1) \/ ~inp.validate THEN y1
       ELSE IF Done(y2) THEN y2
       ELSE IF inp.test = "raise" THEN Fail(y2, "validation_error")
       ELSE y2

\* flash(): the `sysupgrade -T` step.  "accept" is exit code 0, "reject" any
\* other exit code, "raise" an exception of ssh_driver.run.
validate_image(y, inp) ==
    LET y1 == Ask(y, inp, "validate")
        y2 == Log(Ask(y1, inp, "test"), "ssh", <<"sysupgrade", VALIDATE_IMAGE_FLAG>>)
    IN IF Done(y) THEN y
       ELSE IF Done(y1) \/ ~inp.validate THEN y1
       ELSE IF Done(y2) THEN y2
       ELSE IF inp.test = "raise" THEN Fail(y2, "validation_error")
       ELSE IF inp.test # "accept" THEN Fail(y2, "validation_failed")
       ELSE y2

\* The validate_only return with the argument of flash() ignored.
validate_only_return_attribute_only(y, d, inp) ==
    LET y1 == Ask(y, inp, "validate_only")
    IN IF Done(y) THEN y
       ELSE IF Done(y1) THEN y1
       ELSE IF d.validate_only THEN Finish(y1)
       ELSE y1

\* flash(): the validate_only return.  keep_config and validate_only are
\* bound on entry (lines 436-440) and drawn where their value is first used.
validate_only_return(y, d, inp) ==
    LET y1 == Ask(y, inp, "validate_only")
    IN IF Done(y) THEN y
       ELSE IF Done(y1) THEN y1
       ELSE IF OrDefault(inp.validate_only, d.validate_only) THEN Finish(y1)
       ELSE y1

\* variant: an exception of the flashing command ends flash()
run_sysupgrade_propagating(y, d, inp) ==
    LET command_parts ==
            <<"sysupgrade">>
            \o (IF ~OrDefault(inp.keep_config, d.keep_config)
                THEN <<KEEP_CONFIG_FLAG>> ELSE <<>>)
            \o (IF d.allow_downgrade THEN <<FORCE_DOWNGRADE_FLAG>> ELSE <<>>)
        ran == Log(Ask(Ask(y, inp, "keep_config"), inp, "exec"), "ssh", command_parts)
    IN IF Done(y) THEN y
       ELSE IF inp.exec = "raise" THEN Fail(ran, "sysupgrade")
       ELSE Log(ran, "sleep", <<"verify_boot_timeout">>)

\* flash(): the flashing command; an exception of ssh_driver.run is dropped.
run_sysupgrade(y, d, inp) ==
    LET command_parts ==
            <<"sysupgrade">>
            \o (IF ~OrDefault(inp.keep_config, d.keep_config)
                THEN <<KEEP_CONFIG_FLAG>> ELSE <<>>)
            \o (IF d.allow_downgrade THEN <<FORCE_DOWNGRADE_FLAG>> ELSE <<>>)
    IN IF Done(y) THEN y
       ELSE Log(Log(Ask(Ask(y, inp, "keep_config"), inp, "exec"), "ssh", command_parts),
                "sleep", <<"verify_boot_timeout">>)

\* flash() from the skip check on, the local size read
flash_image(size, local_sha256, d, inp) ==
    run_sysupgrade(
        validate_only_return(
            validate_image(
                verify_remote_integrity(
                    put(check_tmp_space(get_ssh_driver(skip_if_installed(size.y, d, inp), inp),
                                        d, inp, size.val),
                        inp),
                    inp, local_sha256, size.val),
                inp),
            d, inp),
        d, inp)

\* flash() from _get_file_size on, the local checksum verified
flash_verified(sha, d, inp) == flash_image(get_file_size(sha.y, inp), sha.val, d, inp)

flash(y, d, inp) ==
    flash_verified(
        verify_local_checksum(
            validate_board(
                check_sysupgrade_available([y EXCEPT !.active = @ \cup {"shell"}], inp),
                d, inp),
            inp),
        d, inp)

\* What the inputs of the driver range over.
Hashes == {<<"aa11">>, <<"bb22">>}

LocalHashes == {<<"aa11">>}

Sizes == {BYTES_PER_KILOBYTE + k : k \in 0..MaxExtraBytes}

RemoteSizes == {BYTES_PER_KILOBYTE - 1} \cup Sizes

AvailKb ==
    {DEFAULT_TMP_SPACE_MARGIN_MB * BYTES_PER_KILOBYTE + k : k \in 0..(MaxExtraBytes + 1)}

df_line(k) ==
    <<"tmpfs", Blank, Blank, "4096", Blank, "16", Blank>> \o Decimal(k)
    \o <<Blank, "1%", Blank, "/tmp">>

ExpectedBoards == {<<>>, <<"boardA">>}

ExpectedVersions == {<<>>, <<"v1">>}

release_file(release, revision) ==
    Reply(0, <<<<"DISTRIB_ID", "=", "'", "LiMe", "'">>,
               <<"DISTRIB_RELEASE", "=", "'">> \o release \o <<"'">>,
               <<"DISTRIB_REVISION", "=", "'">> \o revision \o <<"'">>>>)

FlashInputs ==
    [sysupgrade |-> {Reply(0, <<<<"/sbin/sysupgrade">>>>), Reply(0, <<>>), Reply(1, <<>>)},
     board |-> {Reply(0, <<<<"[", "kmsg", "]">>, <<"boardA", Blank>>>>),
                Reply(0, <<<<"boardB">>>>),
                Reply(0, <<<<"[", "kmsg", "]">>>>),
                Reply(0, <<>>),
                Reply(1, <<>>)},
     expected_sha256 |-> {<<>>} \cup Hashes,
     local_sha |-> LocalHashes,
     local_size |-> Sizes,
     expected_version |-> ExpectedVersions,
     release |-> {release_file(<<"v1">>, <<"r1">>),
                  release_file(<<"v2">>, <<"r2", "+", "v1">>),
                  release_file(<<"v2">>, <<"r2">>),
                  Reply(1, <<>>)},
     ssh |-> {"ok", "unavailable"},
     df |-> {Reply(1, <<>>), Reply(0, <<>>)} \cup {Reply(0, <<df_line(k)>>) : k \in AvailKb},
     put |-> {"ok", "raise"},
     size |-> RemoteSizes,
     stat |-> {"ok", "missing"},
     ls |-> {"ok", "fail"},
     sum |-> {"ok", "fail"},
     sha |-> Hashes,
     validate |-> BOOLEAN,
     test |-> {"accept", "reject", "raise"},
     validate_only |-> Tri,
     keep_config |-> Tri,
     exec |-> {"ok", "raise"}]

IntegrityInputs ==
    [size |-> RemoteSizes,
     stat |-> {"ok", "padded", "garbled", "missing"},
     ls |-> {"ok", "short", "empty", "fail"},
     sum |-> {"ok", "blank", "empty", "fail"},
     sha |-> Hashes]

NoInput ==
    [known |-> {},
     sysupgrade |-> Reply(0, <<>>), board |-> Reply(0, <<>>),
     expected_sha256 |-> <<>>, local_sha |-> <<>>, local_size |-> 0,
     expected_version |-> <<>>, release |-> Reply(0, <<>>),
     ssh |-> "-", df |-> Reply(0, <<>>), put |-> "-",
     size |-> 0, stat |-> "-", ls |-> "-", sum |-> "-", sha |-> <<>>,
     validate |-> FALSE, test |-> "-",
     validate_only |-> "None", keep_config |-> "None", exec |-> "-"]

Draw(inp, field, v) == [inp EXCEPT ![field] = v, !.known = @ \cup {field}]

----------------------------------------------------------------------------
(* State machine of the strategy *)

Profiles ==
    [requires_serial_disconnect : BOOLEAN, has_isolator : BOOLEAN,
     has_serial : BOOLEAN, connection_timeout : ConnTimeouts]

NoPoll == [nFail |-> -1, inPolls |-> 0]

NoCall ==
    [op |-> "init", target |-> "-", pre |-> "unknown", result |-> "ok",
     events |-> <<>>, probe |-> NoProbe, run |-> NoWait, ssh |-> NoSsh]

DefaultProfile ==
    [requires_serial_disconnect |-> FALSE, has_isolator |-> FALSE,
     has_serial |-> TRUE, connection_timeout |-> MaxConnTimeout]

\* attribute defaults of SysupgradeDriver
DefaultDriver ==
    attrs_post_init(
        [keep_config |-> FALSE, force |-> FALSE, allow_downgrade |-> "None",
         expected_board |-> <<>>, skip_if_installed |-> FALSE,
         tmp_space_margin_mb |-> DEFAULT_TMP_SPACE_MARGIN_MB,
         validate_only |-> FALSE])

NoArgs == [expected_sha256 |-> <<>>, expected_size |-> 0]

NoDriverCall ==
    [op |-> "idle", args |-> NoArgs, inp |-> NoInput, result |-> "ok",
     error |-> "none", events |-> <<>>]

\* recovery attributes of the strategy
DefaultRecovery ==
    [enable_uboot_recovery |-> FALSE, max_recovery_attempts |-> MaxRecoveryAttempts,
     uboot_interrupt_count |-> MaxInterruptCount, uboot_boot_wait |-> MaxBootWait,
     has_uboot |-> TRUE]

\* no flash_firmware call yet: where the call stands, how it ended, its
\* recovery_attempt counter, and the boot attempts, failed boot attempts,
\* recovery invocations, failed recovery invocations and flashing commands
\* it has made
NoFirmwareCall ==
    [pc |-> "idle", result |-> "-", recovery_attempt |-> 0, boots |-> 0,
     failed_boots |-> 0, recoveries |-> 0, failed |-> 0, flashes |-> 0]

\* the fixture is not running
NoFixture ==
    [pc |-> "-", skip_if_same |-> FALSE, validate_only |-> FALSE,
     verify_version |-> <<>>, release |-> Reply(1, <<>>), original_skip |-> FALSE]

Init ==
    /\ status = "unknown"
    /\ smart_state_detection \in BOOLEAN
    /\ active = {}
    /\ relay = "none"
    /\ cfg \in Profiles
    /\ last = NoCall
    /\ poll = NoPoll
    /\ prevEnsureOff = -1
    /\ driver = DefaultDriver
    /\ drv = NoDriverCall
    /\ rcfg = DefaultRecovery
    /\ fw = NoFirmwareCall
    /\ fx = NoFixture

Here == Ctx(status, smart_state_detection, active, relay)

\* The operation, or the step of one, ended with context x: publish its
\* effects.
Published(op, target, ssh, x) ==
    /\ status' = x.status
    /\ smart_state_detection' = x.smart
    /\ active' = x.active
    /\ relay' = x.relay
    /\ last' = [op |-> op, target |-> target, pre |-> status,
                result |-> IF x.raised THEN "error" ELSE "ok",
                events |-> x.events, probe |-> x.probe, run |-> x.run, ssh |-> ssh]
    /\ prevEnsureOff' = IF last.op = "ensure_off" /\ last.result = "ok"
                        THEN Count(last.events, PowerOff) ELSE -1
    /\ UNCHANGED cfg

Effects(op, target, ssh, x) ==
    /\ Published(op, target, ssh, x)
    /\ UNCHANGED fx

Commit(op, target, ssh, x) ==
    /\ Effects(op, target, ssh, x)
    /\ UNCHANGED <<driver, drv, rcfg, fw>>

\* What an operation that boots the device can meet: the probe's answer, then
\* a step that raises, or else an outcome of the polling loop.
BootEnvs(probes) ==
    {[probe |-> p, fault |-> f, run |-> NoWait] :
        p \in probes, f \in boot_faults(cfg)}
    \cup {[probe |-> p, fault |-> "none", run |-> r] :
        p \in probes, r \in WaitOutcomes[cfg.connection_timeout]}

\* What a power-off can meet.
OffEnvs == [probe : {NoProbe}, fault : {"none", "power.off"}, run : {NoWait}]

TransitionEnvs(state) ==
    IF state = "shell" /\ status # "shell"
    THEN BootEnvs(IF smart_state_detection /\ cfg.has_serial
                  THEN ProbeOutcomes ELSE {NoProbe})
    ELSE OffEnvs

Transition ==
    /\ \E state \in Status :
           \E env \in TransitionEnvs(state) :
               Commit("transition", state, NoSsh, transition(Here, cfg, state, env))
    /\ UNCHANGED poll

\* The console answers a probe whatever the flag is; the operation decides
\* whether to send one.
ForcePowerCycle ==
    /\ \E env \in BootEnvs(IF cfg.has_serial THEN ProbeOutcomes ELSE {NoProbe}) :
           Commit("force_power_cycle", "shell", NoSsh,
                  force_power_cycle(Here, cfg, env))
    /\ UNCHANGED poll

EnsureOff ==
    /\ \E env \in OffEnvs :
           Commit("ensure_off", "off", NoSsh, ensure_off(Here, cfg, env))
    /\ UNCHANGED poll

CleanupAndShutdown ==
    /\ \E env \in OffEnvs :
           \E ssh \in (IF status = "shell" THEN SshEnvs ELSE {NoSsh}) :
               Commit("cleanup_and_shutdown", "off", ssh,
                      cleanup_and_shutdown(Here, cfg, ssh, env))
    /\ UNCHANGED poll

Next ==
    \/ Transition
    \/ ForcePowerCycle
    \/ EnsureOff
    \/ CleanupAndShutdown

Spec == Init /\ [][Next]_vars

\* transition("shell") against a scripted shell: the probe, where one is
\* sent, is not answered, no step raises, and the loop meets the script.
PollShell ==
    /\ status # "shell"
    /\ \E p \in ScriptedRuns[cfg.connection_timeout] :
           LET env == [probe |-> IF smart_state_detection /\ cfg.has_serial
                                 THEN "timeout" ELSE NoProbe,
                       fault |-> "none",
                       run |-> p.run]
           IN /\ Commit("transition", "shell", NoSsh,
                        transition(Here, cfg, "shell", env))
              /\ poll' = [nFail |-> p.nFail, inPolls |-> p.inPolls]

NextPoll ==
    \/ PollShell
    \/ EnsureOff

SpecPoll == Init /\ [][NextPoll]_vars

----------------------------------------------------------------------------
(* State machine of the driver: one call on a freshly constructed driver.  *)
(* No operation of the driver assigns an attribute, so a call meets the    *)
(* same driver whatever was called before.  While drv.op is "idle" the     *)
(* inputs of the coming call are drawn one by one into drv.inp, each when  *)
(* the operation run on the inputs drawn so far comes to read it; the call *)
(* itself is one step, taken once the operation runs to its end.           *)

DriverAttrs ==
    [keep_config : BOOLEAN, force : BOOLEAN, allow_downgrade : Tri,
     expected_board : ExpectedBoards, skip_if_installed : BOOLEAN,
     tmp_space_margin_mb : {DEFAULT_TMP_SPACE_MARGIN_MB}, validate_only : BOOLEAN]

InitStrategyIdle ==
    /\ status = "unknown"
    /\ smart_state_detection = FALSE
    /\ active = {}
    /\ relay = "none"
    /\ cfg = DefaultProfile
    /\ last = NoCall
    /\ poll = NoPoll
    /\ prevEnsureOff = -1
    /\ rcfg = DefaultRecovery
    /\ fw = NoFirmwareCall
    /\ fx = NoFixture

InitDriver ==
    /\ InitStrategyIdle
    /\ driver \in {attrs_post_init(a) : a \in DriverAttrs}
    /\ drv = NoDriverCall

\* The operation stopped at y to read an input: draw it.
DrawInput(y, inputs) ==
    /\ y.need # "-"
    /\ \E v \in inputs[y.need] : drv' = [drv EXCEPT !.inp = Draw(@, y.need, v)]
    /\ UNCHANGED <<status, smart_state_detection, active, relay, cfg, last, poll,
                   prevEnsureOff, driver, rcfg, fw, fx>>

\* The operation ran to its end y: publish its effects.
CommitDriver(op, y) ==
    /\ y.need = "-"
    /\ drv' = [drv EXCEPT !.op = op,
                          !.result = IF y.raised THEN "error" ELSE "ok",
                          !.error = y.error,
                          !.events = y.events]
    /\ active' = y.active
    /\ UNCHANGED <<status, smart_state_detection, relay, cfg, last, poll,
                   prevEnsureOff, driver, rcfg, fw, fx>>

FlashInput ==
    /\ drv.op = "idle"
    /\ DrawInput(flash(DCtx(active), driver, drv.inp), FlashInputs)

Flash ==
    /\ drv.op = "idle"
    /\ CommitDriver("flash", flash(DCtx(active), driver, drv.inp))

NextDriver ==
    \/ FlashInput
    \/ Flash

SpecDriver == InitDriver /\ [][NextDriver]_vars

\* verify_remote_integrity called on a file already on the device, as
\* test_remote_integrity_check does.
InitIntegrity ==
    /\ InitStrategyIdle
    /\ driver = DefaultDriver
    /\ \E expected_sha256 \in Hashes, expected_size \in RemoteSizes :
           drv = [NoDriverCall EXCEPT !.args = [expected_sha256 |-> expected_sha256,
                                                 expected_size |-> expected_size]]

IntegrityInput ==
    /\ drv.op = "idle"
    /\ DrawInput(verify_remote_integrity(DCtx(active \cup {"ssh"}), drv.inp,
                                         drv.args.expected_sha256, drv.args.expected_size),
                 IntegrityInputs)

VerifyRemoteIntegrity ==
    /\ drv.op = "idle"
    /\ CommitDriver("verify_remote_integrity",
                    verify_remote_integrity(DCtx(active \cup {"ssh"}), drv.inp,
                                            drv.args.expected_sha256,
                                            drv.args.expected_size))

NextIntegrity ==
    \/ IntegrityInput
    \/ VerifyRemoteIntegrity

SpecIntegrity == InitIntegrity /\ [][NextIntegrity]_vars

----------------------------------------------------------------------------
(* State machine of flash_firmware.  The call is a sequence of steps, each *)
(* taken where fw.pc stands: the shell transition ("shell"), network       *)
(* reconciliation ("network"), the transfer engine's flash() ("flash"),    *)
(* then the loop of _attempt_boot_with_recovery, one step per boot attempt *)
(* ("boot") and per recovery attempt ("recover").  fw counts the boot      *)
(* attempts, the recovery invocations and the flashing commands of the     *)
(* call; `last` records the step just taken.  The environment of this      *)
(* machine is a part of the one the operations above accept.               *)

RecoveryConfigs ==
    [enable_uboot_recovery : BOOLEAN,
     max_recovery_attempts : -1..MaxRecoveryAttempts,
     uboot_interrupt_count : {MaxInterruptCount},
     uboot_boot_wait : {MaxBootWait},
     has_uboot : BOOLEAN]

InitFirmware ==
    /\ status = "unknown"
    /\ smart_state_detection \in BOOLEAN
    /\ active = {}
    /\ relay = "none"
    /\ cfg \in {[DefaultProfile EXCEPT !.has_serial = s] : s \in BOOLEAN}
    /\ last = NoCall
    /\ poll = NoPoll
    /\ prevEnsureOff = -1
    /\ driver = DefaultDriver
    /\ drv = NoDriverCall
    /\ rcfg \in RecoveryConfigs
    /\ fw = NoFirmwareCall
    /\ fx = NoFixture

\* the polling loop answers at once or runs out of time
FwRuns == {r \in WaitOutcomes[cfg.connection_timeout] : r.attempts <= 1}

FwBootEnvs ==
    IF status = "shell" THEN {[probe |-> NoProbe, fault |-> "none", run |-> NoWait]}
    ELSE LET probes == IF smart_state_detection /\ cfg.has_serial
                       THEN {"prompt", "timeout"} ELSE {NoProbe}
         IN {[probe |-> p, fault |-> "power.on", run |-> NoWait] : p \in probes}
            \cup {[probe |-> p, fault |-> "none", run |-> r] : p \in probes, r \in FwRuns}

FwNetEnvs(reboot_after) ==
    {[NoNet EXCEPT !.ssh = "ok"]}
    \cup {[ssh |-> "unavailable", family |-> f, run |-> r, after |-> a] :
            f \in (IF cfg.has_serial THEN {"hostname", "openwrt"} ELSE {"-"}),
            r \in (IF reboot_after /\ cfg.has_serial THEN FwRuns ELSE {NoWait}),
            a \in (IF cfg.has_serial THEN {"ok", "lost"} ELSE {"-"})}

RecEnvs ==
    IF ~rcfg.has_uboot \/ ~cfg.has_serial THEN {NoRec} ELSE
    LET staged == {[NoRec EXCEPT !.tftp = t] : t \in {"copied", "present"}}
        booted == {[r EXCEPT !.boot = "ok"] : r \in staged}
        answered == {[r EXCEPT !.answer_at = i, !.probe = p] :
                        r \in booted, i \in 1..MaxBootWait, p \in {"echo_output", "prompt"}}
    IN {[NoRec EXCEPT !.tftp = "missing"]}
       \cup {[r EXCEPT !.fault = f] : r \in staged, f \in {"power.off", "power.on"}}
       \cup {[r EXCEPT !.boot = "raise"] : r \in staged}
       \cup booted
       \cup {[r EXCEPT !.answer_at = i, !.probe = "login"] : r \in booted, i \in 1..MaxBootWait}
       \cup {[r EXCEPT !.upload = "ssh"] : r \in answered}
       \cup {[r EXCEPT !.upload = "unavailable"] : r \in answered}
       \cup {[r EXCEPT !.upload = "unavailable", !.serverip = TRUE, !.download = d] :
                r \in answered, d \in {"ok", "raise"}}

\* flash(image_path, keep_config=keep_config): the other arguments take
\* their defaults
FirmwareFlashArgs(keep_config) ==
    Draw(Draw(Draw(Draw(Draw(NoInput, "validate", TRUE), "expected_sha256", <<>>),
                   "expected_version", <<>>), "validate_only", "None"),
         "keep_config", IF keep_config THEN "True" ELSE "False")

FwFlashInputs ==
    [FlashInputs EXCEPT
        !.sysupgrade = {Reply(0, <<<<"/sbin/sysupgrade">>>>), Reply(1, <<>>)},
        !.local_size = {BYTES_PER_KILOBYTE},
        !.ssh = {"ok"},
        !.df = {Reply(0, <<df_line(DEFAULT_TMP_SPACE_MARGIN_MB * BYTES_PER_KILOBYTE + k)>>) :
                   k \in 0..1},
        !.put = {"ok"},
        !.size = {BYTES_PER_KILOBYTE - 1, BYTES_PER_KILOBYTE},
        !.stat = {"ok"},
        !.sum = {"ok"},
        !.test = {"accept", "reject"}]

\* the flashing command of flash(): sysupgrade without the test flag
IsFlashCommand(e) ==
    e[1] = "ssh" /\ e[2][1] = "sysupgrade" /\ ~Has(e[2], VALIDATE_IMAGE_FLAG)

FlashCommands(evs) == Len(SelectSeq(evs, IsFlashCommand))

FwStep(pc, result) == [fw EXCEPT !.pc = pc, !.result = result]

\* if self.status != Status.shell: self.transition("shell")
FlashFirmware ==
    /\ fw.pc = "idle"
    /\ \E env \in FwBootEnvs :
           LET x == IF status # "shell" THEN transition(Here, cfg, "shell", env) ELSE Here
           IN /\ Effects("flash_firmware", "shell", NoSsh, x)
              /\ fw' = IF x.raised THEN FwStep("done", "error") ELSE FwStep("network", "-")
    /\ UNCHANGED <<poll, driver, drv, rcfg>>

\* if ensure_network: self._ensure_network_configured_before_flash()
EnsureNetworkFor(callers) ==
    /\ fw.pc = "network"
    /\ \E ensure_network \in callers, keep_config \in BOOLEAN :
           \E net \in (IF ensure_network THEN FwNetEnvs(FALSE) ELSE {NoNet}) :
               LET x == IF ensure_network
                        THEN flush_serial_buffer(
                                 configure_libremesh_network(Here, cfg, FALSE, net), cfg)
                        ELSE Here
               IN /\ Effects("flash_firmware", "network", NoSsh, x)
                  /\ fw' = IF x.raised THEN FwStep("done", "error") ELSE FwStep("flash", "-")
                  /\ drv' = [NoDriverCall EXCEPT !.inp = FirmwareFlashArgs(keep_config)]
    /\ UNCHANGED <<poll, driver, rcfg>>

EnsureNetwork == EnsureNetworkFor(BOOLEAN)

\* _get_sysupgrade_driver raises: no SysupgradeDriver is bound
SysupgradeDriverMissing ==
    /\ fw.pc = "flash" /\ "sysupgrade" \notin drv.inp.known
    /\ Effects("flash_firmware", "flash", NoSsh, Raise(Emit(Here, "error", "SysupgradeDriver")))
    /\ fw' = FwStep("done", "error")
    /\ UNCHANGED <<poll, driver, drv, rcfg>>

FirmwareFlashInput ==
    /\ fw.pc = "flash"
    /\ DrawInput(flash(DCtx(active), driver, drv.inp), FwFlashInputs)

\* _perform_firmware_flash, the driver bound, and the entry of the loop of
\* _attempt_boot_with_recovery
PerformFirmwareFlash ==
    /\ fw.pc = "flash"
    /\ LET y == flash(DCtx(active), driver, drv.inp)
           x == perform_firmware_flash(Here, y)
       IN /\ y.need = "-"
          /\ drv' = [drv EXCEPT !.op = "flash",
                                !.result = IF y.raised THEN "error" ELSE "ok",
                                !.error = y.error,
                                !.events = y.events]
          /\ Effects("flash_firmware", "flash", NoSsh, x)
          /\ fw' = [(IF x.raised THEN FwStep("done", "error")
                     ELSE IF 0 <= rcfg.max_recovery_attempts THEN FwStep("boot", "-")
                     ELSE FwStep("done", "ok"))
                    EXCEPT !.flashes = FlashCommands(y.events)]
    /\ UNCHANGED <<poll, driver, rcfg>>

\* One pass of the loop up to the recovery decision.
TryBootAndConfigure ==
    /\ fw.pc = "boot"
    /\ \E env \in FwBootEnvs, net \in FwNetEnvs(TRUE) :
           LET t == try_boot_and_configure(Here, cfg, env, net)
               x == IF t.ret \/ should_attempt_recovery(rcfg, fw.recovery_attempt)
                    THEN t.x ELSE Raise(t.x)
           IN /\ Effects("flash_firmware", "boot", NoSsh, x)
              /\ fw' = [(IF t.ret THEN FwStep("done", "ok")
                         ELSE IF x.raised THEN FwStep("done", "error")
                         ELSE FwStep("recover", "-"))
                        EXCEPT !.boots = @ + 1,
                               !.failed_boots = IF t.ret THEN @ ELSE @ + 1]
    /\ UNCHANGED <<poll, driver, drv, rcfg>>

\* The rest of the pass: the recovery attempt and the loop test.
PerformRecoveryAttempt ==
    /\ fw.pc = "recover"
    /\ \E rec \in RecEnvs :
           LET x == perform_recovery_attempt(Here, cfg, rcfg, rec, fw.recovery_attempt)
           IN /\ Effects("flash_firmware", "recover", NoSsh, x)
              /\ fw' = [(IF x.raised THEN FwStep("done", "error")
                         ELSE IF fw.recovery_attempt + 1 <= rcfg.max_recovery_attempts
                         THEN FwStep("boot", "-")
                         ELSE FwStep("done", "ok"))
                        EXCEPT !.recoveries = @ + 1,
                               !.failed = IF Has(x.events, RecoveryFailed) THEN @ + 1 ELSE @,
                               !.recovery_attempt = IF x.raised THEN @ ELSE @ + 1]
    /\ UNCHANGED <<poll, driver, drv, rcfg>>

NextFirmware ==
    \/ FlashFirmware
    \/ EnsureNetwork
    \/ SysupgradeDriverMissing
    \/ FirmwareFlashInput
    \/ PerformFirmwareFlash
    \/ TryBootAndConfigure
    \/ PerformRecoveryAttempt

SpecFirmware == InitFirmware /\ [][NextFirmware]_vars

----------------------------------------------------------------------------
(* State machine of the recovery called by itself: the strategy is driven  *)
(* to its states by transition(), and attempt_uboot_recovery is called in  *)
(* any of them.                                                            *)

AttemptUbootRecovery ==
    /\ \E rec \in RecEnvs :
           Commit("attempt_uboot_recovery", "-", rec,
                  attempt_uboot_recovery(Here, cfg, rcfg, rec))
    /\ UNCHANGED poll

NextRecovery ==
    \/ Transition
    \/ AttemptUbootRecovery

SpecRecovery == InitFirmware /\ [][NextRecovery]_vars

----------------------------------------------------------------------------
(* State machine of network reconciliation called by itself: the strategy  *)
(* is driven to its states by transition(), and                            *)
(* configure_libremesh_network is called in any of them.  `last` records   *)
(* the argument as its target and what the network answered as its ssh.    *)

\* a strategy just constructed, with or without a serial capability and
\* with either setting of smart_state_detection
InitNetwork ==
    /\ status = "unknown"
    /\ smart_state_detection \in BOOLEAN
    /\ active = {}
    /\ relay = "none"
    /\ cfg \in {[DefaultProfile EXCEPT !.has_serial = s] : s \in BOOLEAN}
    /\ last = NoCall
    /\ poll = NoPoll
    /\ prevEnsureOff = -1
    /\ driver = DefaultDriver
    /\ drv = NoDriverCall
    /\ rcfg = DefaultRecovery
    /\ fw = NoFirmwareCall
    /\ fx = NoFixture

\* Answers that no step of the call reads are left at "-".
NetEnvs(reboot_after) ==
    LET serial == IF cfg.has_serial
                  THEN {[f |-> f, r |-> r, a |-> a] :
                           f \in {"hostname", "package", "openwrt", "raise"},
                           r \in (IF reboot_after THEN WaitOutcomes[cfg.connection_timeout]
                                  ELSE {NoWait}),
                           a \in {"ok", "recovered", "lost"}}
                  ELSE {[f |-> "-", r |-> NoWait, a |-> "-"]}
    IN {[NoNet EXCEPT !.ssh = "ok"]}
       \cup (IF cfg.has_serial THEN {[NoNet EXCEPT !.ssh = "recovered"]} ELSE {})
       \cup {[ssh |-> s, family |-> e.f, run |-> e.r, after |-> e.a] :
                s \in {"lost", "unavailable"}, e \in serial}

RebootArgument(reboot_after) == IF reboot_after THEN "reboot_after" ELSE "-"

ConfigureLibremeshNetwork ==
    /\ \E reboot_after \in BOOLEAN :
           \E net \in NetEnvs(reboot_after) :
               Commit("configure_libremesh_network", RebootArgument(reboot_after), net,
                      configure_libremesh_network(Here, cfg, reboot_after, net))
    /\ UNCHANGED poll

NextNetwork ==
    \/ Transition
    \/ ConfigureLibremeshNetwork

SpecNetwork == InitNetwork /\ [][NextNetwork]_vars

----------------------------------------------------------------------------
(* State machine of the session fixture flash_firmware_if_requested, for    *)
(* one target.  fx holds the options of the session                         *)
(*   skip_if_same, validate_only, verify_version                            *)
(* the release file on the device when the fixture starts, the value of     *)
(* skip_if_installed the fixture saved, and the position of the fixture:    *)
(* "start", then "validate" or "provision", then "done" or "failed".        *)

\* the lines joined by newlines
RECURSIVE join_lines(_, _)
join_lines(stdout, i) ==
    IF i > Len(stdout) THEN <<>>
    ELSE stdout[i] \o (IF i < Len(stdout) THEN <<"\n">> ELSE <<>>)
         \o join_lines(stdout, i + 1)

\* SysupgradeDriver.verify_version, the device answering `cat` with release
verify_version(x, release, expected_version) ==
    LET a == Emit(activate(x, "shell"), "shell", "cat /etc/openwrt_release")
    IN IF release.exit # 0
       THEN Raise(Emit(a, "error", "Failed to read firmware version"))
       ELSE IF expected_version # <<>>
               /\ ~Contains(expected_version, join_lines(release.stdout, 1))
       THEN Raise(Emit(a, "error", "Firmware version mismatch"))
       ELSE a

\* provision_with_firmware after flash_firmware returned
provision_verify(x, release, verify_version_) ==
    IF verify_version_ # <<>> THEN verify_version(x, release, verify_version_) ELSE x

FixtureReleases == {release_file(<<"v1">>, <<"r1">>), release_file(<<"v2">>, <<"r2">>)}

FixtureOptions ==
    {[NoFixture EXCEPT !.pc = "start", !.skip_if_same = s, !.validate_only = v,
                       !.verify_version = e, !.release = r] :
        s \in BOOLEAN, v \in BOOLEAN, e \in ExpectedVersions, r \in FixtureReleases}

InitFixture ==
    /\ status = "unknown"
    /\ smart_state_detection = TRUE
    /\ active = {}
    /\ relay = "none"
    /\ cfg = DefaultProfile
    /\ last = NoCall
    /\ poll = NoPoll
    /\ prevEnsureOff = -1
    /\ driver = DefaultDriver
    /\ drv = NoDriverCall
    /\ rcfg \in {DefaultRecovery,
                 [DefaultRecovery EXCEPT !.enable_uboot_recovery = TRUE,
                                         !.max_recovery_attempts = 1]}
    /\ fw = NoFirmwareCall
    /\ fx \in FixtureOptions

\* sysupgrade.flash(firmware_path, keep_config=keep_config,
\*     expected_sha256=expected_sha256, expected_version=verify_version,
\*     validate_only=True), against the release file on the device
FixtureFlashArgs(keep_config) ==
    Draw(Draw(Draw(Draw(Draw(Draw(NoInput, "validate", TRUE), "expected_sha256", <<>>),
                        "expected_version", fx.verify_version), "validate_only", "True"),
              "keep_config", IF keep_config THEN "True" ELSE "False"),
         "release", fx.release)

\* strategy.transition("shell"), get_driver("SysupgradeDriver") and
\* sysupgrade.skip_if_installed = skip_if_same; an exception ends the target
FixtureTransition ==
    /\ fx.pc = "start"
    /\ \E env \in FwBootEnvs, bound \in BOOLEAN, keep_config \in BOOLEAN :
           LET t == transition(Here, cfg, "shell", env)
               x == IF bound THEN t ELSE Raise(Emit(t, "error", "SysupgradeDriver"))
           IN /\ Published("flash_firmware_if_requested", "shell", NoSsh, x)
              /\ fx' = IF x.raised THEN [fx EXCEPT !.pc = "failed"]
                        ELSE [fx EXCEPT !.pc = IF fx.validate_only THEN "validate"
                                                ELSE "provision",
                                        !.original_skip = driver.skip_if_installed]
              /\ driver' = IF x.raised THEN driver
                            ELSE [driver EXCEPT !.skip_if_installed = fx.skip_if_same]
              /\ drv' = IF ~x.raised /\ fx.validate_only
                         THEN [NoDriverCall EXCEPT !.inp = FixtureFlashArgs(keep_config)]
                         ELSE drv
    /\ UNCHANGED <<poll, rcfg, fw>>

FixtureValidateInput ==
    /\ fx.pc = "validate"
    /\ DrawInput(flash(DCtx(active), driver, drv.inp), FwFlashInputs)

\* the validate-only branch; skip_if_installed is restored when flash()
\* returned
FixtureValidate ==
    /\ fx.pc = "validate"
    /\ LET y == flash(DCtx(active), driver, drv.inp)
       IN /\ y.need = "-"
          /\ drv' = [drv EXCEPT !.op = "flash",
                                !.result = IF y.raised THEN "error" ELSE "ok",
                                !.error = y.error,
                                !.events = y.events]
          /\ active' = y.active
          /\ driver' = IF y.raised THEN driver
                        ELSE [driver EXCEPT !.skip_if_installed = fx.original_skip]
          /\ fx' = [fx EXCEPT !.pc = IF y.raised THEN "failed" ELSE "done"]
    /\ UNCHANGED <<status, smart_state_detection, relay, cfg, last, poll,
                   prevEnsureOff, rcfg, fw>>

\* the full-flash branch: strategy.provision_with_firmware(image_path,
\* keep_config, verify_version) calls flash_firmware(image_path, keep_config)
FixtureProvision ==
    \/ fx.pc = "provision" /\ FlashFirmware
    \/ fx.pc = "provision" /\ EnsureNetworkFor({TRUE})
    \/ fx.pc = "provision" /\ FirmwareFlashInput
    \/ fx.pc = "provision" /\ PerformFirmwareFlash
    \/ fx.pc = "provision" /\ TryBootAndConfigure
    \/ fx.pc = "provision" /\ PerformRecoveryAttempt

\* flash_firmware raised: the exception ends the target
FixtureProvisionFailed ==
    /\ fx.pc = "provision" /\ fw.pc = "done" /\ fw.result = "error"
    /\ fx' = [fx EXCEPT !.pc = "failed"]
    /\ UNCHANGED <<status, smart_state_detection, active, relay, cfg, last, poll,
                   prevEnsureOff, driver, drv, rcfg, fw>>

\* flash_firmware returned: the version is verified when one was asked for,
\* and skip_if_installed is restored
FixtureVerify ==
    /\ fx.pc = "provision" /\ fw.pc = "done" /\ fw.result = "ok"
    /\ \E release \in (IF fx.verify_version # <<>>
                        THEN FixtureReleases \cup {Reply(1, <<>>)}
                        ELSE {fx.release}) :
           LET x == provision_verify(Here, release, fx.verify_version)
           IN /\ Published("flash_firmware_if_requested", "verify", NoSsh, x)
              /\ fx' = [fx EXCEPT !.pc = IF x.raised THEN "failed" ELSE "done"]
              /\ driver' = IF x.raised THEN driver
                            ELSE [driver EXCEPT !.skip_if_installed = fx.original_skip]
    /\ UNCHANGED <<poll, drv, rcfg, fw>>

NextFixture ==
    \/ FixtureTransition
    \/ FixtureValidateInput
    \/ FixtureValidate
    \/ FixtureProvision
    \/ FixtureProvisionFailed
    \/ FixtureVerify

SpecFixture == InitFixture /\ [][NextFixture]_vars

----------------------------------------------------------------------------
(* Properties *)

SerialProbe == <<"serial", "echo test_active">>
ActivateShell == <<"activate", "shell">>

\* C1: transition("unknown") raises from every cached state and has no side
\* effect: no event at all (no power command, no activation, nothing on
\* serial), and status, active capabilities, relay and the smart-detection
\* flag are what they were before the call.
C1_UnknownTargetRaisesWithoutEffect ==
    [][(last'.op = "transition" /\ last'.target = "unknown")
        => /\ last'.result = "error"
           /\ last'.events = <<>>
           /\ UNCHANGED <<status, active, relay, smart_state_detection>>]_vars

C1_Witness ==
    /\ last.op = "transition" /\ last.target = "unknown"
    /\ last.pre = "shell" /\ status = "shell" /\ last.result = "error"

\* C2: a transition whose target is the cached status issues no power command
\* and sends no probe; shell->shell only activates the shell capability,
\* off->off does nothing; status and relay are unchanged.
C2_SameStateIsNoOp ==
    [][(last'.op = "transition" /\ last'.target = status
            /\ last'.target \in {"off", "shell"})
        => /\ last'.result = "ok"
           /\ PowerCommands(last'.events) = 0
           /\ ~Has(last'.events, SerialProbe) /\ last'.probe = NoProbe
           /\ last'.events = IF status = "shell" THEN <<ActivateShell>> ELSE <<>>
           /\ UNCHANGED <<status, relay>>]_vars

C2_Witness ==
    /\ last.op = "transition" /\ last.target = "off" /\ last.pre = "off"
    /\ relay = "off" /\ last.events = <<>>

\* C3: with smart detection on and the cached status not shell, a probe that
\* is answered (echo tag or prompt) makes transition("shell") end with
\* status = shell, the shell capability activated and no power command.
C3_AnsweredProbeSkipsPowerOn ==
    (/\ last.op = "transition" /\ last.target = "shell" /\ last.pre # "shell"
     /\ last.probe \in {"echo_output", "local_echo", "prompt"})
    => /\ last.result = "ok"
       /\ status = "shell"
       /\ PowerCommands(last.events) = 0
       /\ ~Has(last.events, <<"activate", "power">>)
       /\ Has(last.events, ActivateShell) /\ "shell" \in active

C3_Witness ==
    /\ last.op = "transition" /\ last.target = "shell" /\ last.pre = "off"
    /\ last.probe = "prompt" /\ status = "shell"

\* C4 as stated: with N failed polls before the first correct answer, the
\* transition succeeds after exactly N+1 polls when
\* N*SHELL_RETRY_INTERVAL < connection_timeout and raises otherwise,
\* whatever time the failed polls took.
C4_PollCountDecides ==
    (last.op = "transition" /\ poll.nFail >= 0)
    => IF poll.nFail * SHELL_RETRY_INTERVAL < cfg.connection_timeout
       THEN last.result = "ok" /\ last.run.attempts = poll.nFail + 1
       ELSE last.result = "error"

\* C4 amended: the loop is bounded by wall-clock time.  With N failed polls
\* before the first correct answer, the transition succeeds after exactly
\* N+1 polls when the time spent in the N failed polls plus
\* N*SHELL_RETRY_INTERVAL is below connection_timeout, and raises otherwise.
C4_ElapsedTimeDecides ==
    (last.op = "transition" /\ poll.nFail >= 0)
    => IF poll.inPolls + poll.nFail * SHELL_RETRY_INTERVAL < cfg.connection_timeout
       THEN /\ last.result = "ok" /\ status = "shell"
            /\ last.run.attempts = poll.nFail + 1
            /\ Count(last.events, <<"shell", "echo ready">>) = poll.nFail + 1
       ELSE /\ last.result = "error" /\ status = last.pre
            /\ last.run.attempts <= poll.nFail

C4_Witness ==
    /\ last.op = "transition" /\ poll.nFail = 1
    /\ last.result = "ok" /\ last.run.attempts = 2 /\ status = "shell"

\* C5: after cleanup_and_shutdown returns, the last command the relay
\* accepted is off.
C5_CleanupLeavesRelayOff ==
    (last.op = "cleanup_and_shutdown" /\ last.result = "ok") => relay = "off"

\* C6: a transition that sets status to shell has seen the echo marker come
\* back from the shell during that transition (the probe's command output or
\* a correct poll).
C6_ShellMeansVerifiedEcho ==
    (/\ last.op \in {"transition", "force_power_cycle"}
     /\ last.target = "shell" /\ last.pre # "shell"
     /\ last.result = "ok" /\ status = "shell")
    => (last.probe = "echo_output" \/ last.run.ok)

\* C7: a transition("shell") that issued power-on and then failed leaves the
\* cached status unknown.
C7_FailedBootResetsStatus ==
    (/\ last.op = "transition" /\ last.target = "shell"
     /\ Has(last.events, PowerOn) /\ last.result = "error")
    => status = "unknown"

\* C8: of two ensure_off calls in a row that both return, the second issues
\* no power command and leaves status = off; together they issue at most one
\* power.off.
C8_EnsureOffIdempotent ==
    (last.op = "ensure_off" /\ last.result = "ok" /\ prevEnsureOff >= 0)
    => /\ PowerCommands(last.events) = 0
       /\ status = "off"
       /\ prevEnsureOff + Count(last.events, PowerOff) <= 1

C8_Witness ==
    /\ last.op = "ensure_off" /\ last.result = "ok" /\ prevEnsureOff = 1
    /\ status = "off" /\ relay = "off"

\* What the device's commands let the host read back of the uploaded file.
SizeReadBack ==
    IF "stat" \in drv.inp.known /\ drv.inp.stat \in {"ok", "padded"} THEN drv.inp.size
    ELSE IF "ls" \in drv.inp.known /\ drv.inp.ls = "ok" THEN drv.inp.size
    ELSE ValueError

ShaReadBack ==
    IF "sum" \in drv.inp.known /\ drv.inp.sum = "ok" THEN drv.inp.sha ELSE <<>>

Sha256sumCommand == <<"ssh", <<"sha256sum">>>>

\* C9: verify_remote_integrity passes exactly when the size and the checksum
\* read back from the device both equal the expected values; a size that
\* differs raises the size-mismatch error with no checksum computed, and a
\* checksum that differs raises the SHA-mismatch error, a different one.
C9_IntegrityPassesIffBothEqual ==
    drv.op = "verify_remote_integrity" =>
        /\ drv.result = "ok" <=> (/\ SizeReadBack = drv.args.expected_size
                                   /\ ShaReadBack = drv.args.expected_sha256)
        /\ (SizeReadBack # ValueError /\ SizeReadBack # drv.args.expected_size)
           => (/\ drv.result = "error" /\ drv.error = "size_mismatch"
               /\ ~Has(drv.events, Sha256sumCommand))
        /\ (/\ SizeReadBack = drv.args.expected_size
            /\ ShaReadBack # <<>> /\ ShaReadBack # drv.args.expected_sha256)
           => (/\ drv.result = "error" /\ drv.error = "sha_mismatch"
               /\ drv.error # "size_mismatch")

\* The size matched, read through the ls fallback, and the checksum differed.
C9_Witness ==
    /\ drv.op = "verify_remote_integrity"
    /\ drv.inp.stat = "garbled" /\ drv.inp.ls = "ok"
    /\ drv.inp.size = drv.args.expected_size
    /\ drv.inp.sum = "ok" /\ drv.inp.sha # drv.args.expected_sha256
    /\ drv.error = "sha_mismatch"

\* position of the first flashing command
FlashAt(evs) == CHOOSE i \in 1..Len(evs) : IsFlashCommand(evs[i])

UploadCommand == <<"ssh", <<"put">>>>

TestCommand == <<"ssh", <<"sysupgrade", VALIDATE_IMAGE_FLAG>>>>

ReadBackChecked == "size" \in drv.inp.known

ReadBackEqual ==
    /\ SizeReadBack = drv.inp.local_size
    /\ ShaReadBack = drv.inp.local_sha

ValidationAsked == "validate" \in drv.inp.known /\ drv.inp.validate

\* C10: flash() issues the flashing command only when the read-back size and
\* checksum of the uploaded file equal the local ones and, validation being
\* requested, `sysupgrade -T` exited with 0; when either check fails, flash()
\* raises and has issued no flashing command.
C10_FlashOnlyAfterVerifiedUpload ==
    drv.op = "flash" =>
        /\ FlashCommands(drv.events) > 0
           => (/\ ReadBackEqual
               /\ Index(drv.events, UploadCommand) > 0
               /\ Index(drv.events, UploadCommand) < Index(drv.events, Sha256sumCommand)
               /\ Index(drv.events, Sha256sumCommand) < FlashAt(drv.events)
               /\ ValidationAsked
                  => (/\ drv.inp.test = "accept"
                      /\ Index(drv.events, Sha256sumCommand) < Index(drv.events, TestCommand)
                      /\ Index(drv.events, TestCommand) < FlashAt(drv.events)))
        /\ ((ReadBackChecked /\ ~ReadBackEqual)
            \/ (ValidationAsked /\ drv.inp.test # "accept"))
           => (drv.result = "error" /\ FlashCommands(drv.events) = 0)

\* A validated image was flashed after the ls fallback read its size back.
C10_Witness ==
    /\ drv.op = "flash" /\ drv.result = "ok"
    /\ FlashCommands(drv.events) = 1
    /\ drv.inp.validate /\ drv.inp.test = "accept"
    /\ drv.inp.stat = "missing" /\ drv.inp.size = drv.inp.local_size

Known(field) == field \in drv.inp.known

Uploads(evs) == Count(evs, UploadCommand)

SleepCommand == <<"sleep", <<"verify_boot_timeout">>>>

\* The preconditions of flash(), as the inputs of the call decide them.
UtilityAbsent ==
    Known("sysupgrade") /\ (drv.inp.sysupgrade.exit # 0 \/ drv.inp.sysupgrade.stdout = <<>>)

BoardDiffers ==
    /\ driver.expected_board # <<>> /\ Known("board")
    /\ drv.inp.board.exit = 0
    /\ \E i \in 1..Len(drv.inp.board.stdout) :
           /\ Head(drv.inp.board.stdout[i]) # "["
           /\ Head(drv.inp.board.stdout[i]) # Head(driver.expected_board)

LocalChecksumDiffers ==
    /\ Known("expected_sha256") /\ drv.inp.expected_sha256 # <<>>
    /\ drv.inp.expected_sha256 # drv.inp.local_sha

\* the kilobytes df reports as available, -1 when it reports none
DfAvailable ==
    IF Known("df") /\ \E k \in AvailKb : drv.inp.df = Reply(0, <<df_line(k)>>)
    THEN CHOOSE k \in AvailKb : drv.inp.df = Reply(0, <<df_line(k)>>)
    ELSE -1

RequiredBytes == drv.inp.local_size + driver.tmp_space_margin_mb * 1024 * 1024

FreeSpaceShort == DfAvailable >= 0 /\ DfAvailable * 1024 < RequiredBytes

\* C11: in flash(), a precondition failure - utility absent, the device's
\* board different from the configured expected_board, local checksum
\* different from a supplied expected_sha256, free space below the
\* requirement - raises with no upload and no flashing command, whatever
\* force, allow_downgrade, keep_config, skip_if_installed and validate_only are.
C11_PreconditionFailureHasNoEffect ==
    (/\ drv.op = "flash"
     /\ UtilityAbsent \/ BoardDiffers \/ LocalChecksumDiffers \/ FreeSpaceShort)
    => /\ drv.result = "error"
       /\ drv.error = (CASE UtilityAbsent -> "sysupgrade_unavailable"
                         [] BoardDiffers -> "board_mismatch"
                         [] LocalChecksumDiffers -> "local_sha_mismatch"
                         [] OTHER -> "insufficient_space")
       /\ Uploads(drv.events) = 0
       /\ FlashCommands(drv.events) = 0

\* A board mismatch refused although a downgrade is allowed.
C11_Witness ==
    /\ drv.op = "flash" /\ BoardDiffers /\ driver.allow_downgrade
    /\ driver.skip_if_installed /\ driver.validate_only
    /\ drv.error = "board_mismatch" /\ Uploads(drv.events) = 0

\* The installed release file names the expected version in DISTRIB_RELEASE
\* or DISTRIB_REVISION.
VersionInstalled ==
    /\ Known("release")
    /\ drv.inp.release \in {release_file(<<"v1">>, <<"r1">>),
                            release_file(<<"v2">>, <<"r2", "+", "v1">>)}
    /\ drv.inp.expected_version = <<"v1">>

SkipAsked ==
    driver.skip_if_installed /\ Known("expected_version")
    /\ drv.inp.expected_version # <<>>

\* C12: with skip_if_installed set and an expected_version that is part of
\* the device's DISTRIB_RELEASE or DISTRIB_REVISION, flash() returns with no
\* upload and no flashing command; when the version does not match or the
\* release file cannot be read, flash() goes on to the upload steps.
C12_SkipOnlyWhenInstalled ==
    (drv.op = "flash" /\ SkipAsked)
    => /\ Known("release")
       /\ IF VersionInstalled
          THEN /\ drv.result = "ok"
               /\ Uploads(drv.events) = 0 /\ FlashCommands(drv.events) = 0
               /\ ~Known("ssh")
          ELSE Known("ssh")

\* The version is found in DISTRIB_REVISION and the flash is skipped.
C12_Witness ==
    /\ drv.op = "flash" /\ SkipAsked /\ drv.result = "ok"
    /\ drv.inp.release = release_file(<<"v2">>, <<"r2", "+", "v1">>)
    /\ Uploads(drv.events) = 0

ValidateOnlyMode ==
    /\ Known("validate_only")
    /\ \/ drv.inp.validate_only = "True"
       \/ drv.inp.validate_only = "None" /\ driver.validate_only

\* C13: in validate-only mode, by argument or by attribute, flash() runs its
\* checks through the upload, the read-back check and (validation being
\* requested) `sysupgrade -T`, then returns without the flashing command and
\* without the boot-wait sleep.
C13_ValidateOnlyNeverFlashes ==
    (drv.op = "flash" /\ ValidateOnlyMode)
    => /\ drv.result = "ok"
       /\ FlashCommands(drv.events) = 0
       /\ ~Has(drv.events, SleepCommand)
       /\ Has(drv.events, <<"shell", <<"command", "-v", "sysupgrade">>>>)
       /\ Known("df") /\ Uploads(drv.events) = 1
       /\ Has(drv.events, Sha256sumCommand) /\ ReadBackEqual
       /\ drv.inp.validate => (Has(drv.events, TestCommand) /\ drv.inp.test = "accept")
       /\ drv.events[Len(drv.events)] =
              IF drv.inp.validate THEN TestCommand ELSE Sha256sumCommand

\* Validate-only by argument on a driver whose attribute is off.
C13_Witness ==
    /\ drv.op = "flash" /\ Known("validate_only")
    /\ drv.inp.validate_only = "True" /\ ~driver.validate_only
    /\ drv.inp.validate /\ drv.result = "ok" /\ FlashCommands(drv.events) = 0

\* C14: the free-space check aborts exactly when
\* available_kilobytes*1024 < image size + tmp_space_margin_mb*1024*1024
\* (equality passes), and on abort no upload takes place.
C14_FreeSpaceBoundary ==
    (drv.op = "flash" /\ DfAvailable >= 0)
    => /\ (drv.error = "insufficient_space") <=> (DfAvailable * 1024 < RequiredBytes)
       /\ (DfAvailable * 1024 < RequiredBytes)
          => (drv.result = "error" /\ Uploads(drv.events) = 0)
       /\ (DfAvailable * 1024 >= RequiredBytes) => Uploads(drv.events) = 1

\* Exactly the required space is available and the upload takes place.
C14_Witness ==
    /\ drv.op = "flash" /\ DfAvailable >= 0
    /\ DfAvailable * 1024 = RequiredBytes
    /\ Uploads(drv.events) = 1

ShellPoll == <<"shell", "echo ready">>

\* C19: force_power_cycle, from every cached state and whatever the console
\* would answer to a probe, sends no probe, polls the shell only after a
\* power-on command, and returns only after a power-on command: it never
\* ends as "already in desired state".
C19_ForcePowerCycleAlwaysPowersOn ==
    last.op = "force_power_cycle"
    => /\ ~Has(last.events, SerialProbe) /\ last.probe = NoProbe
       /\ (Has(last.events, ShellPoll) \/ last.run.attempts >= 0)
          => /\ Has(last.events, PowerOn)
             /\ Has(last.events, ShellPoll)
                => Index(last.events, PowerOn) < Index(last.events, ShellPoll)
       /\ last.result = "ok"
          => (Has(last.events, PowerOn) /\ last.run.ok /\ relay = "on")

\* Called with smart detection on and the cached status shell.
C19_Witness ==
    /\ last.op = "force_power_cycle" /\ last.pre = "shell"
    /\ smart_state_detection /\ cfg.has_serial
    /\ last.result = "ok" /\ Count(last.events, PowerOn) = 1

\* C20: when force_power_cycle exits, returning or raising at any step,
\* smart_state_detection has the value it had before the call.
C20_ForcePowerCycleRestoresDetection ==
    [][last'.op = "force_power_cycle"
        => smart_state_detection' = smart_state_detection]_vars

\* The call raised with smart detection on.
C20_Witness ==
    /\ last.op = "force_power_cycle" /\ last.result = "error"
    /\ smart_state_detection /\ Has(last.events, PowerOn)

----------------------------------------------------------------------------
(* flash_firmware: the boot and recovery loop *)

\* every boot attempt and every recovery invocation of the call so far failed
EverythingFailed ==
    /\ fw.boots >= 1
    /\ fw.failed_boots = fw.boots
    /\ fw.failed = fw.recoveries

\* C15: with recovery enabled and max_recovery_attempts = M >= 1, a call in
\* which every post-flash boot attempt and every recovery invocation fails
\* ends by raising, and it does so after exactly M recovery invocations.
C15_ExhaustedAfterExactlyMaxRecoveries ==
    (rcfg.enable_uboot_recovery /\ rcfg.max_recovery_attempts >= 1 /\ EverythingFailed)
    => /\ fw.recoveries <= rcfg.max_recovery_attempts
       /\ fw.pc = "done" => /\ fw.result = "error"
                            /\ fw.recoveries = rcfg.max_recovery_attempts
                            /\ last.op = "flash_firmware" => last.result = "error"

\* Two recovery attempts, each after a failed boot and each failing, ended the
\* call with an error.
C15_Witness ==
    /\ rcfg.enable_uboot_recovery /\ rcfg.max_recovery_attempts = 2
    /\ fw.pc = "done" /\ fw.result = "error"
    /\ fw.boots = 2 /\ fw.failed_boots = 2
    /\ fw.recoveries = 2 /\ fw.failed = 2
    /\ last.op = "flash_firmware" /\ last.target = "recover"

\* C16: within one flash_firmware call the recovery attempt counter never
\* exceeds max_recovery_attempts (a count, so not negative), the recovery is
\* invoked at most max_recovery_attempts times, at most
\* max_recovery_attempts + 1 post-flash boot attempts are made, and with
\* enable_uboot_recovery false the recovery is never invoked.
C16_RecoveryAttemptsBounded ==
    /\ rcfg.max_recovery_attempts >= 0
       => /\ fw.recovery_attempt <= rcfg.max_recovery_attempts
          /\ fw.recoveries <= rcfg.max_recovery_attempts
          /\ fw.boots <= rcfg.max_recovery_attempts + 1
    /\ ~rcfg.enable_uboot_recovery => fw.recoveries = 0

\* Every bound is met: two recoveries that did not raise, then a third boot
\* attempt.
C16_Witness ==
    /\ rcfg.enable_uboot_recovery /\ rcfg.max_recovery_attempts = 2
    /\ fw.recovery_attempt = 2 /\ fw.recoveries = 2 /\ fw.boots = 3
    /\ fw.pc = "done"

\* the bootloader capability or the serial capability cannot be obtained
CapabilityMissing == ~rcfg.has_uboot \/ ~cfg.has_serial

\* C17: attempt_uboot_recovery called when the bootloader capability or the
\* serial capability cannot be obtained raises before any side effect: no
\* power command, no file staged in the TFTP root, no session deactivated, no
\* byte written to serial, and the cached status, the sessions and the relay
\* are as they were.
C17_RecoveryWithoutCapabilityHasNoEffect ==
    [][(last'.op = "attempt_uboot_recovery" /\ CapabilityMissing)
       => /\ last'.result = "error"
          /\ last'.events = <<>>
          /\ status' = status
          /\ active' = active
          /\ relay' = relay]_vars

\* The call was made with a live shell session and no bootloader capability.
C17_Witness ==
    /\ last.op = "attempt_uboot_recovery" /\ last.result = "error"
    /\ ~rcfg.has_uboot /\ cfg.has_serial
    /\ status = "shell" /\ "shell" \in active /\ relay = "on"

\* the transfer engine's flash(), called by flash_firmware, raised
FlashRaised == drv.op = "flash" /\ drv.result = "error"

\* C18: if the transfer engine's flash() raises, whether on a precondition,
\* on the integrity of the upload or on the utility's rejection of the image,
\* flash_firmware ends there by raising: no post-flash boot attempt and no
\* recovery is made, and the strategy is left in the shell state it flashed
\* from.
C18_FlashFailurePropagates ==
    FlashRaised
    => /\ fw.pc = "done" /\ fw.result = "error"
       /\ fw.boots = 0 /\ fw.recoveries = 0
       /\ last.op = "flash_firmware" /\ last.target = "flash" /\ last.result = "error"
       /\ status = "shell"

\* The read-back size differed, on a strategy with recovery enabled.
C18_Witness ==
    /\ FlashRaised /\ drv.error = "size_mismatch"
    /\ rcfg.enable_uboot_recovery /\ rcfg.max_recovery_attempts = 2 /\ rcfg.has_uboot
    /\ fw.pc = "done"

----------------------------------------------------------------------------
(* Network reconciliation *)

NetworkCall == last.op = "configure_libremesh_network"

\* _try_configure_network_via_ssh answered True: the session was back after
\* the restart, or after the recovery over serial
SshAttemptSucceeded ==
    last.ssh.ssh = "ok" \/ (last.ssh.ssh = "recovered" /\ cfg.has_serial)

\* _configure_network_via_serial ran: it detected the firmware, or found no
\* SerialDriver for its commands
SerialPathRan(evs) ==
    Has(evs, <<"serial", "uname -n">>) \/ Has(evs, <<"error", "SerialDriver">>)

RebootCommand == <<"serial", "reboot">>

\* the reboot follows the last command of the serial sequence, and the
\* shell-wait loop ran to a ready shell
RebootedAndWaited ==
    /\ Has(last.events, RebootCommand)
    /\ Has(last.events, <<"serial", "sync">>)
    /\ Index(last.events, <<"serial", "sync">>) < Index(last.events, RebootCommand)
    /\ last.run.ok /\ last.run.attempts >= 1
    /\ Index(last.events, RebootCommand) < Index(last.events, ShellPoll)

\* C22: configure_libremesh_network(reboot_after=True) that returns normally
\* has sent a reboot command after the configuration commands and has re-run
\* the shell-wait loop; with reboot_after=False no reboot command is sent.
C22_RebootAfterReboots ==
    (NetworkCall /\ last.result = "ok")
    => IF last.target = RebootArgument(TRUE) THEN RebootedAndWaited
       ELSE ~Has(last.events, RebootCommand)

\* What holds of reboot_after: the reboot and the shell wait are made on the
\* serial path only.
C22_RebootOnSerialPathOnly ==
    (NetworkCall /\ last.result = "ok")
    => IF last.target = RebootArgument(TRUE) /\ ~SshAttemptSucceeded THEN RebootedAndWaited
       ELSE ~Has(last.events, RebootCommand)

----------------------------------------------------------------------------
(* Power sequences *)

\* C23: force_power_cycle forces a complete power cycle on every device
\* profile: a power-off command is issued and then a power-on command.
C23_ForcePowerCycleCyclesPower ==
    (last.op = "force_power_cycle" /\ last.result = "ok")
    => /\ Has(last.events, PowerOff) /\ Has(last.events, PowerOn)
       /\ Index(last.events, PowerOff) < Index(last.events, PowerOn)

\* What holds on every profile is the power-on command; the power-off comes
\* first on the profiles with line isolation only.
C23_PowerOffOnlyWithIsolation ==
    (last.op = "force_power_cycle" /\ last.result = "ok")
    => /\ Count(last.events, PowerOn) = 1
       /\ IF cfg.requires_serial_disconnect /\ cfg.has_isolator
          THEN /\ Count(last.events, PowerOff) = 1
               /\ Index(last.events, PowerOff) < Index(last.events, PowerOn)
          ELSE ~Has(last.events, PowerOff)

LineIsolation == cfg.requires_serial_disconnect /\ cfg.has_isolator

Disconnect == <<"isolator", "disconnect">>
Connect == <<"isolator", "connect">>
BootWait == <<"sleep", "boot_wait">>
WakeUp == <<"serial", "">>

\* C24: in the line-isolation power-on sequence the events occur in the order
\* power.off, isolator.disconnect, power.on, boot_wait, isolator.connect,
\* each once: the line is disconnected when power-on is issued and through
\* the whole boot_wait, and console wake-up and shell polling come only after
\* the line is reconnected.
C24_LineIsolationOrder ==
    (LineIsolation /\ Has(last.events, PowerOn))
    => /\ Count(last.events, PowerOff) = 1 /\ Count(last.events, Disconnect) = 1
       /\ Count(last.events, PowerOn) = 1
       /\ Index(last.events, PowerOff) < Index(last.events, Disconnect)
       /\ Index(last.events, Disconnect) < Index(last.events, PowerOn)
       /\ Has(last.events, Connect)
          => /\ Count(last.events, Connect) = 1 /\ Count(last.events, BootWait) = 1
             /\ Index(last.events, PowerOn) < Index(last.events, BootWait)
             /\ Index(last.events, BootWait) < Index(last.events, Connect)
       /\ \A i \in 1..Len(last.events) :
             last.events[i] \in {WakeUp, ShellPoll}
             => /\ Has(last.events, Connect)
                /\ Index(last.events, Connect) < i

\* A boot through the isolator on a profile with a serial console: the
\* console was woken and the shell answered.
C24_Witness ==
    /\ LineIsolation /\ cfg.has_serial
    /\ last.op = "transition" /\ last.target = "shell" /\ last.result = "ok"
    /\ Has(last.events, Connect) /\ Has(last.events, WakeUp) /\ Has(last.events, ShellPoll)

\* transition("shell") from another cached state
BootCall == last.op = "transition" /\ last.target = "shell" /\ last.pre # "shell"

\* the fast probe could not be sent, or what came back is no answer of a shell
ProbeNotReady ==
    \/ ~smart_state_detection
    \/ ~cfg.has_serial
    \/ last.probe \in {"raise", "timeout", "login"}

\* the power-on step was reached: power.on() was called
PowerOnReached ==
    Has(last.events, PowerOn) \/ Has(last.events, <<"error", "power.on">>)

\* C25: an absent or failing optional channel never makes transition("shell")
\* raise before the power-on step.  Without a serial capability, or with a
\* fast probe that raises, times out or matches only a login prompt, the
\* power-on sequence runs; with requires_serial_disconnect set and no
\* isolator bound it is the standard sequence; and without a serial
\* capability nothing is sent to a console.
C25_OptionalChannelsDegrade ==
    (BootCall /\ ProbeNotReady)
    => /\ Has(last.events, <<"activate", "power">>)
       /\ ~LineIsolation
          => /\ PowerOnReached
             /\ ~Has(last.events, PowerOff)
             /\ ~Has(last.events, Disconnect) /\ ~Has(last.events, Connect)
             /\ last.result = "error"
                => \/ Has(last.events, <<"error", "power.on">>)
                   \/ (~last.run.ok /\ last.run.attempts >= 0)
       /\ ~cfg.has_serial
          => /\ last.probe = NoProbe
             /\ \A i \in 1..Len(last.events) : last.events[i][1] # "serial"

\* The probe raised on a profile that asks for line isolation and has no
\* isolator: the standard power-on ran and the shell answered.
C25_Witness ==
    /\ BootCall /\ last.probe = "raise" /\ last.result = "ok"
    /\ cfg.requires_serial_disconnect /\ ~cfg.has_isolator
    /\ Has(last.events, PowerOn) /\ status = "shell"

\* transition("off") from another cached state
OffCall == last.op = "transition" /\ last.target = "off" /\ last.pre # "off"

\* C26: transition("off") from any cached state other than off activates the
\* power capability and issues exactly one power.off(): nothing else is
\* touched (no serial, shell, SSH or isolator operation, no wait, no
\* read-back) and status becomes off; if power.off() raises, the error
\* reaches the caller and the cached status is unchanged.
C26_PowerOffOnly ==
    OffCall
    => IF last.result = "ok"
       THEN /\ last.events = <<<<"activate", "power">>, PowerOff>>
            /\ status = "off" /\ relay = "off"
       ELSE /\ last.events = <<<<"activate", "power">>, <<"error", "power.off">>>>
            /\ status = last.pre

\* Powered off from a verified shell.
C26_Witness ==
    /\ OffCall /\ last.pre = "shell" /\ last.result = "ok" /\ status = "off"

\* power.off() raised while the cached status was shell.
C26_WitnessRaised ==
    /\ OffCall /\ last.pre = "shell" /\ last.result = "error" /\ status = "shell"

----------------------------------------------------------------------------
(* Graceful shutdown *)

\* cleanup_and_shutdown called with the cached status at shell
ShutdownCall == last.op = "cleanup_and_shutdown" /\ last.pre = "shell"

SshProbe == <<"ssh", "true">>

\* the probes the session is sent: one more than it answers, MAX_WAIT_CYCLES
\* at most
ProbesSent ==
    IF ~last.ssh.avail \/ ~last.ssh.cmd_ok THEN 0
    ELSE IF last.ssh.answered < MAX_WAIT_CYCLES THEN last.ssh.answered + 1
    ELSE MAX_WAIT_CYCLES

\* power.off() was called
PowerOffReached ==
    Has(last.events, PowerOff) \/ Has(last.events, <<"error", "power.off">>)

\* C27: the graceful shutdown attempt terminates and never propagates an SSH
\* failure.  After the poweroff command the session is probed at most
\* MAX_WAIT_CYCLES times, up to the first probe that fails; and whether SSH
\* is missing, the poweroff command fails or SSH answers every probe, the
\* physical power-off step comes next, and only its own failure is raised.
C27_GracefulShutdownBounded ==
    ShutdownCall
    => /\ Count(last.events, SshProbe) = ProbesSent
       /\ Count(last.events, SshProbe) <= MAX_WAIT_CYCLES
       /\ Count(last.events, <<"ssh", "poweroff">>)
              = (IF last.ssh.avail /\ last.ssh.cmd_ok THEN 1 ELSE 0)
       /\ PowerOffReached
       /\ \A i \in 1..Len(last.events) :
             last.events[i][1] = "ssh" => i < Index(last.events, <<"activate", "power">>)
       /\ last.result = "error" <=> Has(last.events, <<"error", "power.off">>)

\* SSH answered every probe: the warning was logged and the relay was
\* switched off.
C27_Witness ==
    /\ ShutdownCall /\ last.ssh.answered = MAX_WAIT_CYCLES
    /\ Count(last.events, SshProbe) = MAX_WAIT_CYCLES
    /\ Has(last.events, <<"log", "shutdown timeout warning">>)
    /\ last.result = "ok" /\ relay = "off"

\* The poweroff command failed and the relay was switched off.
C27_WitnessCommandFailed ==
    /\ ShutdownCall /\ last.ssh.avail /\ ~last.ssh.cmd_ok
    /\ last.result = "ok" /\ relay = "off"

----------------------------------------------------------------------------
(* Bootloader recovery *)

RecoveryCall == last.op = "attempt_uboot_recovery"

InterruptByte == <<"serial.write", " ">>
ActivateUboot == <<"activate", "uboot">>
UbootBoot == <<"uboot", "boot">>
UbootAwaitBoot == <<"uboot", "await_boot">>

\* every occurrence of e in evs lies strictly between positions lo and hi
Between(evs, e, lo, hi) ==
    \A i \in 1..Len(evs) : evs[i] = e => (lo < i /\ i < hi)

\* C28: in a recovery run the device-facing steps occur in this order: power
\* off, deactivation of the stale shell and SSH sessions, activation of
\* serial, power on, exactly uboot_interrupt_count space bytes written to
\* serial, activation of the bootloader capability, the boot command, the
\* wait for the boot, then the shell polls.  No interrupt byte precedes the
\* power-on and the bootloader is activated after all of them.
C28_RecoveryStepOrder ==
    (RecoveryCall /\ Has(last.events, PowerOn))
    => /\ Count(last.events, PowerOff) = 1 /\ Count(last.events, PowerOn) = 1
       /\ Index(last.events, PowerOff) < Index(last.events, <<"activate", "serial">>)
       /\ Index(last.events, <<"activate", "serial">>) < Index(last.events, PowerOn)
       /\ \A i \in 1..Len(last.events) :
             last.events[i] \in {<<"deactivate", "shell">>, <<"deactivate", "ssh">>}
             => \/ /\ Index(last.events, PowerOff) < i
                   /\ i < Index(last.events, <<"activate", "serial">>)
                \/ /\ Has(last.events, UbootAwaitBoot)
                   /\ Index(last.events, UbootAwaitBoot) < i
       /\ Count(last.events, InterruptByte) = rcfg.uboot_interrupt_count
       /\ Between(last.events, InterruptByte, Index(last.events, PowerOn),
                  Len(last.events) + 1)
       /\ Has(last.events, ActivateUboot)
       /\ Between(last.events, InterruptByte, 0, Index(last.events, ActivateUboot))
       /\ Has(last.events, UbootBoot)
          => /\ Index(last.events, ActivateUboot) < Index(last.events, UbootBoot)
             /\ Index(last.events, UbootBoot) + 1 = Index(last.events, UbootAwaitBoot)
             /\ Between(last.events, SerialProbe, Index(last.events, UbootAwaitBoot),
                        Len(last.events) + 1)

\* A recovery that ran to its end from a live shell session.
C28_Witness ==
    /\ RecoveryCall /\ last.result = "ok"
    /\ Has(last.events, <<"deactivate", "shell">>)
    /\ Index(last.events, <<"deactivate", "shell">>) < Index(last.events, PowerOn)
    /\ Has(last.events, UbootAwaitBoot) /\ Has(last.events, SerialProbe)
    /\ Count(last.events, InterruptByte) = MaxInterruptCount

\* the file the firmware was persisted to on the device, by the way it got there
SshUpload == <<"ssh", "put">>
TftpDownload == <<"shell", "tftp -g">>
FlashUploaded == <<"console", "sysupgrade -n -F /tmp/recovery_sysupgrade.bin">>
FlashDownloaded == <<"console", "sysupgrade -n -F /tmp/firmware.bin">>

C29_WitnessUploaded ==
    /\ RecoveryCall /\ last.result = "ok"
    /\ Has(last.events, <<"deactivate", "ssh">>)
    /\ Has(last.events, FlashUploaded)

\* C30: if attempt_uboot_recovery exits with an error after it has issued its
\* power-off command, the cached status afterwards is unknown: entered with
\* status = shell and failing part-way, it never leaves status = shell.
C30_FailedRecoveryResetsStatus ==
    (RecoveryCall /\ last.result = "error" /\ Has(last.events, PowerOff))
    => status = "unknown"

\* What the code does guarantee: the status is reset once the wait for the
\* shell of the RAM-booted image has begun, and is otherwise left as it was.
C30_StatusResetFromShellWait ==
    (RecoveryCall /\ last.result = "error")
    => /\ Has(last.events, UbootAwaitBoot) => status = "unknown"
       /\ ~Has(last.events, UbootAwaitBoot) => status = last.pre

TftpStaged == <<"tftp", "copy sysupgrade">>
ServerIpMissing == <<"error", "serverip not found">>

\* C31: in recovery the firmware is pulled from the TFTP server over the
\* shell only if the SSH upload failed; on that path, when the bootloader's
\* commands hold no `setenv serverip` entry, recovery raises, nothing is
\* downloaded and no flashing command is issued.
C31_TftpFallbackNeedsServerIp ==
    RecoveryCall
    => /\ (Has(last.events, TftpStaged) \/ Has(last.events, TftpDownload))
          => (~Has(last.events, SshUpload) /\ last.ssh.upload = "unavailable")
       /\ Has(last.events, TftpDownload) => last.ssh.serverip
       /\ (Has(last.events, TftpStaged) /\ ~last.ssh.serverip)
          => Has(last.events, ServerIpMissing)
       /\ Has(last.events, ServerIpMissing)
          => /\ last.result = "error"
             /\ Has(last.events, TftpStaged)
             /\ ~Has(last.events, TftpDownload)
             /\ ~Has(last.events, FlashUploaded)
             /\ ~Has(last.events, FlashDownloaded)

C31_Witness ==
    /\ RecoveryCall /\ last.result = "error" /\ ~last.ssh.serverip
    /\ Has(last.events, ActivateShell)
    /\ Has(last.events, ServerIpMissing)

----------------------------------------------------------------------------
(* Recovery inside flash_firmware *)

\* C32: a configuration error during recovery (the bootloader capability is
\* not bound) is fatal and not retried: once a recovery of flash_firmware has
\* failed for that reason the call has raised, with no further boot attempt
\* and no further recovery invocation, whatever max_recovery_attempts allows.
C32_ConfigurationErrorNotRetried ==
    (~rcfg.has_uboot /\ fw.failed >= 1)
    => /\ fw.pc = "done" /\ fw.result = "error"
       /\ fw.boots = 1
       /\ fw.recoveries = 1

\* What the code does guarantee: the failed recovery is retried until the
\* attempt that is the final one, and only that one raises.
C32_ConfigurationErrorRaisesOnFinalAttempt ==
    (~rcfg.has_uboot /\ fw.failed >= 1)
    => /\ fw.failed = fw.recoveries
       /\ (fw.pc = "done" /\ fw.result = "error")
          => fw.recoveries = rcfg.max_recovery_attempts

----------------------------------------------------------------------------
(* Serial configuration commands *)

HostnameCheck == <<"serial", "uname -n">>
PackageCheck == <<"serial", "opkg list-installed">>
NetworkRestart == <<"serial", "/etc/init.d/network restart">>

\* the events that end the command sequence of _configure_network_via_serial
CommandsEnd(evs) ==
    IF Has(evs, <<"serial", "echo ready_to_reboot">>)
    THEN Index(evs, <<"serial", "echo ready_to_reboot">>)
    ELSE Index(evs, <<"sleep", "network_init">>)

\* the commands sent between the detection and the reboot or the wait
ConfigCommands(evs) ==
    SubSeq(evs,
           Index(evs, HostnameCheck) + (IF Has(evs, PackageCheck) THEN 2 ELSE 1),
           CommandsEnd(evs) - 1)

LimeSettings ==
    {<<"serial", "uci set lime-defaults.lan.proto=dhcp">>,
     <<"serial", "uci commit lime-defaults">>,
     <<"serial", "uci set lime.lan.proto=dhcp">>,
     <<"serial", "uci commit lime">>,
     <<"serial", "/etc/init.d/lime-config disable">>}

PlainSettings ==
    {<<"serial", "uci set network.lan.proto=dhcp">>,
     <<"serial", "uci -q delete network.lan.ipaddr">>,
     <<"serial", "uci -q delete network.lan.netmask">>,
     <<"serial", "uci commit network">>,
     <<"serial", "sync">>}

DetectedLibremesh == last.ssh.family \in {"hostname", "package", "raise"}

\* C33: on the serial fallback path the commands issued match the detected
\* firmware family: the LibreMesh settings (lime-defaults, lime, and the
\* disabling of lime-config) are issued exactly when the hostname check or the
\* package check identified LibreMesh or the detection raised, otherwise the
\* plain OpenWrt sequence alone is issued; in both families the network
\* restart is part of the sequence exactly when reboot_after is false.
C33_CommandsMatchFirmwareFamily ==
    (NetworkCall /\ Has(last.events, HostnameCheck))
    => LET cmds == ConfigCommands(last.events)
       IN /\ Has(last.events, PackageCheck) <=> last.ssh.family \in {"package", "openwrt"}
          /\ \A e \in LimeSettings : Has(cmds, e) <=> DetectedLibremesh
          /\ \A e \in PlainSettings : Count(cmds, e) = 1
          /\ Len(cmds) = (IF DetectedLibremesh THEN 14 ELSE 5)
                          + Count(cmds, NetworkRestart)
          /\ Count(cmds, NetworkRestart) = (IF last.target = "reboot_after" THEN 0 ELSE 1)
          /\ Has(cmds, NetworkRestart) => cmds[Len(cmds)] = NetworkRestart

C33_Witness ==
    /\ NetworkCall /\ last.ssh.family = "raise" /\ last.target = "-"
    /\ Has(last.events, HostnameCheck)
    /\ Has(ConfigCommands(last.events), <<"serial", "uci commit lime">>)
    /\ Has(ConfigCommands(last.events), NetworkRestart)

C33_WitnessOpenwrt ==
    /\ NetworkCall /\ last.ssh.family = "openwrt" /\ last.target = "reboot_after"
    /\ Has(last.events, PackageCheck)
    /\ Len(ConfigCommands(last.events)) = 5

----------------------------------------------------------------------------
(* The flashing command of flash() *)

\* C34: once all checks have passed, an error raised by the flashing command
\* itself (the connection dropping, a timeout) is ignored: flash() has issued
\* the command exactly once, then waits verify_boot_timeout and returns
\* normally.
C34_FlashCommandErrorIgnored ==
    drv.op = "flash"
    => /\ FlashCommands(drv.events) > 0 <=> Known("exec")
       /\ Known("exec")
          => /\ drv.result = "ok"
             /\ FlashCommands(drv.events) = 1
             /\ Count(drv.events, SleepCommand) = 1
             /\ FlashAt(drv.events) = Len(drv.events) - 1
             /\ drv.events[Len(drv.events)] = SleepCommand

C34_Witness ==
    /\ drv.op = "flash" /\ Known("exec") /\ drv.inp.exec = "raise"
    /\ drv.result = "ok"
    /\ FlashCommands(drv.events) = 1

----------------------------------------------------------------------------
(* The shell poll of the recovery *)

NoShellAfterBoot == <<"error", "no shell after initramfs boot">>

\* the console answers the probe at a poll within the uboot_boot_wait ceiling
ProbeAnswered ==
    /\ last.ssh.answer_at \in 1..rcfg.uboot_boot_wait
    /\ last.ssh.probe \in {"echo_output", "prompt"}

\* the shell was declared live at the poll the console answered
DeclaredLiveAtAnswer ==
    /\ Has(last.events, ActivateShell)
    /\ ~Has(last.events, NoShellAfterBoot)
    /\ Count(last.events, SerialProbe) = last.ssh.answer_at

\* C35: after the recovery image has booted from RAM, the shell poll of the
\* recovery declares the shell live on the first poll at which the serial
\* console answers the probe, and raises only if no poll within the
\* uboot_boot_wait ceiling is answered, whatever the value of
\* smart_state_detection.
C35_RecoveryPollIgnoresDetectionFlag ==
    (RecoveryCall /\ Has(last.events, UbootAwaitBoot))
    => /\ ProbeAnswered => DeclaredLiveAtAnswer
       /\ ~ProbeAnswered => (last.result = "error" /\ Has(last.events, NoShellAfterBoot))

\* What the code does guarantee: the same with smart_state_detection set;
\* without it no probe is sent and the poll always raises.
C35_RecoveryPollWithDetection ==
    (RecoveryCall /\ Has(last.events, UbootAwaitBoot))
    => /\ (smart_state_detection /\ ProbeAnswered) => DeclaredLiveAtAnswer
       /\ ~(smart_state_detection /\ ProbeAnswered)
          => (last.result = "error" /\ Has(last.events, NoShellAfterBoot))
       /\ ~smart_state_detection => ~Has(last.events, SerialProbe)

----------------------------------------------------------------------------
(* The session flash fixture *)

\* the version asked for by the session is the one the device reported when
\* the fixture started
RequestedVersionInstalled ==
    check_if_installed(DCtx({}), Draw(NoInput, "release", fx.release),
                       fx.verify_version).val

FixtureFlashed == fx.pc # "-" /\ drv.op = "flash"

\* C36: with --flash-skip-if-same set and the requested version already
\* installed on the device, the session fixture skips the flash of the target
\* in the full-flash path too, not only in validate-only mode: no upload and
\* no flashing command is issued for it.
C36_SkipIfSameInFullFlash ==
    (FixtureFlashed /\ fx.skip_if_same /\ RequestedVersionInstalled)
    => /\ Uploads(drv.events) = 0
       /\ FlashCommands(drv.events) = 0

\* What the code does guarantee: the skip in validate-only mode; in the
\* full-flash path flash() is called without the version, never skips, and
\* issues the flashing command whenever it returns.
C36_SkipIfSameInValidateOnly ==
    FixtureFlashed
    => /\ (fx.validate_only /\ fx.skip_if_same /\ RequestedVersionInstalled)
          => (Uploads(drv.events) = 0 /\ FlashCommands(drv.events) = 0)
       /\ (~fx.validate_only /\ drv.result = "ok")
          => (Uploads(drv.events) = 1 /\ FlashCommands(drv.events) = 1)

----------------------------------------------------------------------------
(* The return of flash_firmware *)

FlashFirmwareReturned == fw.pc = "done" /\ fw.result = "ok"

\* the last step of the call was a boot attempt that succeeded: the shell
\* transition and the network reconciliation both completed
LastBootSucceeded ==
    /\ fw.boots >= 1
    /\ fw.failed_boots < fw.boots
    /\ last.op = "flash_firmware" /\ last.target = "boot" /\ last.result = "ok"
    /\ status = "shell"

\* C37: flash_firmware returns normally only if its last post-flash boot
\* attempt succeeded (shell transition and network reconciliation completed,
\* status = shell); in every other case it raises, for every value of
\* max_recovery_attempts and enable_uboot_recovery, zero and negative values
\* of max_recovery_attempts included.
C37_ReturnsOnlyAfterSuccessfulBoot ==
    FlashFirmwareReturned => LastBootSucceeded

\* What the code does guarantee: the same for max_recovery_attempts >= 0;
\* with a negative value the loop body never runs and the call returns after
\* the flash without any boot attempt.
C37_ReturnsAfterBootUnlessNegative ==
    FlashFirmwareReturned
    => IF rcfg.max_recovery_attempts >= 0 THEN LastBootSucceeded
       ELSE /\ fw.boots = 0 /\ fw.recoveries = 0
            /\ last.target = "flash" /\ status = "unknown"

----------------------------------------------------------------------------
(* The return of configure_libremesh_network *)

EchoTest == <<"ssh", "echo test">>

\* SSH answers the echo test on one of the paths: after the SSH attempt or its
\* recovery over serial, or after the serial configuration or its recovery
SshReachable ==
    \/ SshAttemptSucceeded
    \/ last.ssh.after = "ok"
    \/ last.ssh.after = "recovered" /\ cfg.has_serial

\* C38: configure_libremesh_network returns normally only if an SSH
\* `echo test` round trip succeeded after the network was reconfigured,
\* directly or after the recovery of SSH over serial; if SSH never becomes
\* reachable on either path it raises.
C38_ReturnsOnlyWithSshVerified ==
    NetworkCall
    => /\ last.result = "ok"
          => /\ SshReachable
             /\ Has(last.events, EchoTest)
             /\ last.events[Len(last.events)] = EchoTest
             /\ "ssh" \in active
       /\ ~SshReachable => last.result = "error"

C38_Witness ==
    /\ NetworkCall /\ last.result = "ok"
    /\ last.ssh.ssh = "lost" /\ last.ssh.after = "recovered"
    /\ Count(last.events, EchoTest) = 4

C38_WitnessNeverReachable ==
    /\ NetworkCall /\ last.result = "error"
    /\ last.ssh.ssh = "lost" /\ last.ssh.after = "lost" /\ cfg.has_serial
    /\ Has(last.events, <<"error", "SSH is not available">>)

----------------------------------------------------------------------------
(* The line isolator at the exits of transition("shell") *)

ShellTransition == last.op = "transition" /\ last.target = "shell"

\* the last command the isolator accepted put the line back
Reconnected(evs) ==
    /\ Has(evs, Connect)
    /\ \A i \in 1..Len(evs) : evs[i] = Disconnect => i < Index(evs, Connect)

\* C39: whenever a transition("shell") on a line-isolation device exits,
\* normally or with an error raised at any step after isolator.disconnect
\* (power.on failing, for one), the line isolator has been commanded back to
\* the connected position.
C39_IsolatorReconnectedOnExit ==
    (ShellTransition /\ Has(last.events, Disconnect)) => Reconnected(last.events)

\* What the code does guarantee: the line is put back whenever power.on
\* succeeded and the connect command was accepted, so on every normal return.
C39_IsolatorReconnectedOnReturn ==
    (ShellTransition /\ Has(last.events, Disconnect))
    => /\ last.result = "ok" => Reconnected(last.events)
       /\ ~Reconnected(last.events)
          => (Has(last.events, <<"error", "power.on">>)
              \/ Has(last.events, <<"error", "isolator.connect">>))

----------------------------------------------------------------------------
(* The status after a failed force_power_cycle *)

\* C40: if force_power_cycle raises, on a power command that fails or on a
\* shell that never gets ready, the cached status afterwards is unknown,
\* never shell and never off, whatever it was before the call.
C40_FailedForcePowerCycleIsUnknown ==
    (last.op = "force_power_cycle" /\ last.result = "error")
    => status = "unknown"

\* The power-on command raised in a call made with status = off.
C40_Witness ==
    /\ last.op = "force_power_cycle" /\ last.result = "error"
    /\ last.pre = "off"
    /\ Has(last.events, <<"error", "power.on">>)

\* The shell never got ready in a call made with status = shell.
C40_WitnessNoShell ==
    /\ last.op = "force_power_cycle" /\ last.result = "error"
    /\ last.pre = "shell"
    /\ Has(last.events, PowerOn) /\ ~last.run.ok

====
